---- MODULE Spec2Model ----
(***************************************************************************)
(* Shared-document synchronisation of the architecture dashboard: the App  *)
(* component (patch saves, realtime handler, polling fallback, echo        *)
(* filter, edit lock), the DetailPanel edit helpers and the delete-node    *)
(* edge function, all acting on the single row "main" of                   *)
(* architecture_data.                                                      *)
(***************************************************************************)
EXTENDS Integers, Sequences, FiniteSets, Bags, TLC

\* ------------------------------------------------------------------ bounds
MaxGestures == 3     \* user gestures of the browser that works alone
DuoGestures == 2     \* user gestures of each browser when two work at once
FewGestures == 2     \* user gestures of a browser in the failure and deletion runs
ArrowGestures == 1   \* user gestures of a browser in the arrow runs
FileGestures == 2    \* exports and imports of a browser in the file runs
MaxCalls == 1        \* calls of the delete-node function in a run
MaxWrites == 3       \* successful writes of the remote row in a run
MaxFailures == 3     \* transport failures injected in a run
MaxPolls == 1        \* ticks of the polling interval in a run
MaxVal == 1          \* distinct contents a user can give a node
MaxPos == 1          \* distinct positions a drag can give a node
MaxMentionSaves == 3    \* calls of saveMentions in a run
MaxMentionFetches == 2  \* fetches of the persisted mentions in a run
MaxAuthEvents == 2      \* sign-ins elsewhere, token refreshes and reloads in a run
MaxRoleChanges == 1     \* changes an admin makes to user_roles in a run
InactivityTickMs == 900000  \* granularity of the clock of the inactivity timer, in ms
TickMs == 100        \* granularity of the wall clock, in ms
MaxClock == 100      \* the wall clock stops advancing here, in ms

\* ------------------------------------------------------- program constants
EchoToleranceMs == 100
BackoffBaseMs == 1000
MaxAttempts == 3
INACTIVITY_TIMEOUT_MS == 1800000

Clients == {"c1", "c2"}
NodeIds == {"A", "B"}
TagIds == {"t"}
None == "-"
NoTime == -1

\* --------------------------------------------------------------- documents
Node(id, val) == [id |-> id, val |-> val, pos |-> 0]
NoNode == Node(None, 0)
Conn(from, to) == [from |-> from, to |-> to]

\* initialArchitectureData and the built-in connection list, cut to two nodes
initialArchitectureData ==
    [components |-> <<Node("A", 0), Node("B", 0)>>, tags |-> <<>>]
DefaultConnections == <<Conn("A", "B")>>

EmptyData == [components |-> <<>>, tags |-> <<>>]
\* a row: state is absent | empty (data is {}) | full; by is the writer (history)
NoRow == [state |-> "absent", data |-> EmptyData, connections |-> <<>>,
          updated_at |-> NoTime, by |-> None]
Row(d, conns, ts) == [state |-> "full", data |-> d, connections |-> conns,
                      updated_at |-> ts, by |-> None]

Range(s) == {s[i] : i \in DOMAIN s}
Ids(comps) == {comps[i].id : i \in DOMAIN comps}
\* Array.prototype.find: the first component with this id
FindNode(comps, id) ==
    IF id \in Ids(comps)
    THEN comps[CHOOSE i \in DOMAIN comps :
                 /\ comps[i].id = id
                 /\ \A j \in DOMAIN comps : comps[j].id = id => i <= j]
    ELSE NoNode
RemoveNode(comps, id) == SelectSeq(comps, LAMBDA n : n.id # id)
ReplaceNode(comps, id, node) ==
    [i \in DOMAIN comps |-> IF comps[i].id = id THEN node ELSE comps[i]]

\* parseDates: a blob without a components list is replaced by the default
parseDates(row) ==
    IF row.state = "empty" THEN initialArchitectureData ELSE row.data

\* isOwnEcho: within 100 ms of the last timestamp this client stamped
Abs(x) == IF x < 0 THEN -x ELSE x
IsOwnEcho(lastSave, incoming) ==
    /\ lastSave # NoTime
    /\ Abs(incoming - lastSave) < EchoToleranceMs

\* a merge that substitutes only and never appends
PatchMergeInPlace(remoteDoc, nodeId, updatedNode) ==
    [remoteDoc EXCEPT !.components = ReplaceNode(@, nodeId, updatedNode)]
\* patchSaveNode, step 2: substitute the saved node into the fetched document,
\* append it when the fetched document does not hold it
PatchMerge(remoteDoc, nodeId, updatedNode) ==
    LET replaced == ReplaceNode(remoteDoc.components, nodeId, updatedNode)
    IN [remoteDoc EXCEPT !.components =
           IF nodeId \in Ids(remoteDoc.components)
           THEN replaced ELSE Append(replaced, updatedNode)]

\* a merge that takes the incoming document whatever is dirty
MergeIgnoringDirty(prev, incoming, dirtyIds) == incoming

\* the merge of an incoming document into the local one (poll and realtime)
MergeIncoming(prev, incoming, dirtyIds) ==
    IF dirtyIds # {}
    THEN [incoming EXCEPT !.components =
            [i \in DOMAIN incoming.components |->
               LET inc == incoming.components[i]
               IN IF inc.id \in dirtyIds /\ inc.id \in Ids(prev.components)
                  THEN FindNode(prev.components, inc.id) ELSE inc]]
    ELSE incoming

\* -------------------------------------------------- JSON and timestamps
\* a Date object of the given ms, an Invalid Date, the ISO string JSON holds
\* for a Date, and JSON null
DateOf(ms) == [date |-> ms]
InvalidDate == [date |-> NoTime]
IsoString(ms) == [iso |-> ms]
JsonNull == [null |-> TRUE]
Has(r, key) == key \in DOMAIN r

\* Date.prototype.toJSON: the ISO string, or null for an Invalid Date
toJSON(v) ==
    IF Has(v, "date")
    THEN IF v = InvalidDate THEN JsonNull ELSE IsoString(v.date)
    ELSE v
\* a constructor that takes its argument for epoch milliseconds only
NewDateFromMs(x) ==
    IF Has(x, "date") THEN x
    ELSE IF Has(x, "null") THEN DateOf(0)
    ELSE InvalidDate
\* new Date(x): x is a Date, an ISO string, null or something else
NewDate(x) ==
    IF Has(x, "date") THEN x
    ELSE IF Has(x, "iso") THEN DateOf(x.iso)
    ELSE IF Has(x, "null") THEN DateOf(0)
    ELSE InvalidDate
Missing == [undefined |-> TRUE]
Get(r, key) == IF Has(r, key) THEN r[key] ELSE Missing

\* JSON.stringify followed by JSON.parse of a document: every Date (a node's
\* lastUpdated, a comment's timestamp, a milestone's createdAt) becomes its
\* toJSON value, everything else is kept
CommentJson(k) ==
    IF Has(k, "timestamp") THEN [k EXCEPT !.timestamp = toJSON(@)] ELSE k
NodeJson(n) ==
    LET n1 == IF Has(n, "lastUpdated") THEN [n EXCEPT !.lastUpdated = toJSON(@)]
              ELSE n
    IN IF Has(n1, "comments")
       THEN [n1 EXCEPT !.comments = [i \in DOMAIN @ |-> CommentJson(@[i])]]
       ELSE n1
MilestoneJson(m) ==
    IF Has(m, "createdAt") THEN [m EXCEPT !.createdAt = toJSON(@)] ELSE m
DocJson(d) ==
    LET d1 == IF Has(d, "components")
              THEN [d EXCEPT !.components = [i \in DOMAIN @ |-> NodeJson(@[i])]]
              ELSE d
    IN IF Has(d1, "milestones")
       THEN [d1 EXCEPT !.milestones = [i \in DOMAIN @ |-> MilestoneJson(@[i])]]
       ELSE d1

\* parseDates on a parsed JSON document
ParsedComment(k) ==
    [timestamp |-> NewDate(Get(k, "timestamp"))] @@ k
ParsedNode(n) ==
    [lastUpdated |-> NewDate(Get(n, "lastUpdated")),
     comments |-> IF Has(n, "comments")
                  THEN [i \in DOMAIN n.comments |-> ParsedComment(n.comments[i])]
                  ELSE <<>>] @@ n
ParsedMilestone(m) ==
    [createdAt |-> NewDate(Get(m, "createdAt"))] @@ m
\* the built-in document with the timestamp fields of its type: each node
\* has a lastUpdated Date and a comment list, and there is a milestone list
InitialWithDates ==
    [components |-> [i \in DOMAIN initialArchitectureData.components |->
                       [lastUpdated |-> DateOf(0), comments |-> <<>>]
                         @@ initialArchitectureData.components[i]],
     milestones |-> <<>>] @@ initialArchitectureData
ParseDatesJson(d) ==
    IF ~Has(d, "components") THEN InitialWithDates
    ELSE [components |-> [i \in DOMAIN d.components |-> ParsedNode(d.components[i])],
          milestones |-> IF Has(d, "milestones")
                         THEN [i \in DOMAIN d.milestones |->
                                 ParsedMilestone(d.milestones[i])]
                         ELSE <<>>,
          tags |-> IF Has(d, "tags") THEN d.tags ELSE <<>>] @@ d

\* the content of a file: text JSON.parse throws on, or a parsed object
NoFile == [none |-> TRUE]
Unparseable == [unparseable |-> TRUE]
ExportData(d, conns, ts) ==
    [data |-> DocJson(d), connections |-> conns, exportedAt |-> IsoString(ts)]

\* ------------------------------------------------------------ auth: users
\* a user is known by the email of the Google account, <<local part, domain>>
NoUser == <<>>
Ann == <<"ann", "ergo.net">>
Ian == <<"ian", "ergo.net">>
Eve == <<"eve", "gmail.com">>
AuthUsers == {Ann, Ian, Eve}
ALLOWED_DOMAINS == {"bluelabellabs.com", "ergo.net", "beyonddataconsulting.io"}

\* (user.email ?? "").split("@")[1] ?? ""
EmailDomain(user) == IF Len(user) >= 2 THEN user[2] ELSE ""
\* a check that lets every domain in
AnyDomainAllowed(user) == TRUE
\* step 1 of resolveUserAccess
DomainAllowed(user) == EmailDomain(user) \in ALLOWED_DOMAINS

\* a row of user_roles, or the absence of one
NoRoleRow == [exists |-> FALSE, active |-> FALSE, role |-> None]
RoleRow(role, active) == [exists |-> TRUE, active |-> active, role |-> role]
\* Ann has never signed in, Ian's access is revoked, Eve was added by email
InitialRoles ==
    [u \in AuthUsers |-> IF u = Ann THEN NoRoleRow
                         ELSE IF u = Ian THEN RoleRow("member", FALSE)
                         ELSE RoleRow("member", TRUE)]

\* ------------------------------------------------------------------- state
VARIABLES
    remote,                 \* the row "main" of architecture_data
    channel,                \* per client: realtime notifications not yet handled
    now,                    \* the last wall-clock reading, in ms
    wlog,                   \* history: the writes the remote row has taken
    failures,               \* history: transport failures so far
    gestures,               \* per client: user gestures still allowed
    calls,                  \* history: delete-node calls so far
    polls,                  \* history: ticks of the polling interval so far
    lastApplied,            \* history, per client: the last row applied
    data,                   \* useState data
    connections,
    localStorage,           \* per client: the items the persist effect has stored
            \* useState connections
    saveStatus,             \* useState saveStatus
    isLoading,              \* useState isLoading
    isInitialLoad,          \* isInitialLoad.current
    selectedNodeId,         \* useState selectedNodeId
    editingField,           \* DetailPanel: an inline field is being edited
    dirtyNodeIds,           \* dirtyNodeIdsRef.current
    lastSaveTimestamp,      \* lastSaveTimestampRef.current
    savePending,            \* savePendingRef.current
    nodeDebounceTimers,     \* nodeDebounceTimers.current
    connectionsSaveTimeout, \* connectionsSaveTimeoutRef: a timer is pending
    lastUpdatedAt,          \* lastUpdatedAt of the sync effect
    requests,               \* per client: the async operations in flight
    editEndTimers,          \* per client: pending setTimeout(onEditEnd)
    statusTimers,           \* per client: pending setTimeout(setSaveStatus(""))
    editSeq,                \* per client: number of debounce timers set so far
    fnRequests,             \* delete-node invocations in flight
    isAuthenticated,        \* fullyAuthed of useAuth
    draggedNode,            \* useState draggedNode
    file,                   \* per client: the file handleExport downloaded last
    alerts,                 \* per client: the message of the last alert()
    fnLog,                  \* history: the answers of the delete-node function
    mentionsTable,          \* the rows of table mentions for the node and field
    contextId,              \* useMentions: the contextId prop ("" without a node)
    previousMentions,       \* useMentions: useState previousMentions
    loading,                \* useMentions: useState loading
    mentionFetches,         \* useMentions: selects of the effect in flight
    mentionSaves,           \* useMentions: saveMentions calls in flight
    mentionCalls,           \* history: saveMentions calls and fetches so far
    notifyLog,              \* history: the invocations of notify-mentions
    session,                \* supabase.auth: the user of the stored session
    authEvents,             \* supabase.auth: events not yet handed to the listener
    signOuts,               \* supabase.auth: signOut() calls not yet completed
    rolesTable,             \* the user_roles rows, by user
    googleUser,             \* useAuth: useState googleUser
    accessDenied,           \* useAuth: useState accessDenied
    userRole,               \* useAuth: useState userRole
    resolvingRef,           \* useAuth: resolvingRef.current
    getSessionPending,      \* useAuth: getSession() of the bootstrap effect is pending
    authOps,                \* useAuth: handleUser calls awaiting resolveUserAccess
    inactivityTimers,       \* useAuth: the live timers resetInactivityTimer has set
    sinceActivity,          \* history: ms signed in since the last activity event
    authCalls               \* history: external auth events and role changes so far

serverVars == <<remote, channel, wlog>>
fileVars == <<file, alerts>>
mentionVars == <<mentionsTable, contextId, previousMentions, loading,
                 mentionFetches, mentionSaves, mentionCalls, notifyLog>>
authVars == <<session, authEvents, signOuts, rolesTable, googleUser, accessDenied,
              userRole, resolvingRef, getSessionPending, authOps, inactivityTimers,
              sinceActivity, authCalls>>
hookVars == <<mentionVars, authVars>>
sideVars == <<draggedNode, fileVars, fnLog, hookVars>>
historyVars == <<failures, gestures, polls, calls, lastApplied>>
docVars == <<data, connections, localStorage>>
uiVars == <<saveStatus, isLoading, selectedNodeId, editingField>>
refVars == <<isInitialLoad, dirtyNodeIds, lastSaveTimestamp, savePending,
             lastUpdatedAt>>
timerVars == <<nodeDebounceTimers, connectionsSaveTimeout, editEndTimers,
               statusTimers, editSeq>>
vars == <<serverVars, now, historyVars, docVars, uiVars, refVars, timerVars,
          requests, fnRequests, isAuthenticated, sideVars>>

\* an async operation of a client: kind is load | poll | node | conn | delete |
\* tag; pc is fetch | write | resp | wait
Op(kind, pc) ==
    [kind |-> kind, pc |-> pc, nodeId |-> None, node |-> NoNode,
     conns |-> <<>>, tag |-> None, attempt |-> 0, waits |-> <<>>,
     row |-> NoRow, err |-> FALSE]
\* a debounce timer: the snapshot it will save, its serial number, and the
\* isAuthenticated that the patchSaveNode in its closure was created with
NoTimer == [node |-> NoNode, seq |-> 0, auth |-> FALSE]
\* the keys of nodeDebounceTimers: nodeId for a field edit, drag-nodeId for a
\* drag move
DragKey(id) == "drag-" \o id
TimerKeys == NodeIds \cup {DragKey(id) : id \in NodeIds}

\* history of an apply: the row's stamp, the path it came by, and the dirty
\* nodes whose local copy differed from the incoming one
NoApply == [at |-> NoTime, path |-> None, kept |-> {}]
Applied(c, path, row) ==
    LET incoming == parseDates(row).components
    IN [at |-> row.updated_at, path |-> path,
        kept |-> {x \in dirtyNodeIds[c] \cap Ids(data[c].components) \cap Ids(incoming) :
                    FindNode(data[c].components, x) # FindNode(incoming, x)}]

Put(b, r) == b (+) SetToBag({r})
Take(b, r) == b (-) SetToBag({r})
OpsOf(c, kind, pc) == {o \in BagToSet(requests[c]) : o.kind = kind /\ o.pc = pc}

\* new Date(): the wall clock has advanced by no tick or one since last read
Stamps == {t \in {now, now + TickMs} : t <= MaxClock \/ t = now}

\* the persist effect after a render that changed data or connections: both
\* are stored as JSON text, unless isInitialLoad.current is still set
NoItems == [items |-> FALSE]
StoredItems(d, conns) == [data |-> DocJson(d), connections |-> conns]
Persist(c, initialLoad, d, conns) ==
    localStorage' = [localStorage EXCEPT ![c] =
                       IF initialLoad THEN @ ELSE StoredItems(d, conns)]

\* loadLocalConnections: the built-in list (no stored copy in this model)
loadLocalConnections == DefaultConnections

\* what a select on the row answers: an error when the row does not exist
\* (.single() needs exactly one row)
FetchRow == IF remote.state = "absent" THEN [NoRow EXCEPT !.state = "error"]
            ELSE remote
ErrorRow == [NoRow EXCEPT !.state = "error"]

\* DetailPanel's edit-lock cleanup effect depends on the onEditEnd prop, an
\* inline arrow of App: every render of App runs the cleanup, which ends the
\* edit lock of the node the panel shows
AfterRender(c, dirty) ==
    IF selectedNodeId[c] \in Ids(data[c].components)
    THEN dirty \ {selectedNodeId[c]} ELSE dirty

\* the connections debounce effect: it runs after a render in which
\* connections changed, unless the initial load is still running
ConnectionsEffect(c, initialLoad) ==
    IF ~isAuthenticated[c] \/ initialLoad THEN connectionsSaveTimeout[c] ELSE TRUE

Init ==
    /\ remote \in {NoRow, [NoRow EXCEPT !.state = "empty"],
                   [Row(initialArchitectureData, DefaultConnections, 0)
                      EXCEPT !.by = None]}
    /\ channel = [c \in Clients |-> <<>>]
    /\ now = 0
    /\ wlog = <<>>
    /\ failures = 0
    /\ calls = 0
    /\ polls = 0
    /\ lastApplied = [c \in Clients |-> NoApply]
    /\ data = [c \in Clients |-> initialArchitectureData]
    /\ connections = [c \in Clients |-> loadLocalConnections]
    /\ localStorage = [c \in Clients |-> NoItems]
    /\ saveStatus = [c \in Clients |-> ""]
    /\ isLoading = [c \in Clients |-> TRUE]
    /\ isInitialLoad = [c \in Clients |-> TRUE]
    /\ selectedNodeId = [c \in Clients |-> None]
    /\ editingField = [c \in Clients |-> FALSE]
    /\ dirtyNodeIds = [c \in Clients |-> {}]
    /\ lastSaveTimestamp = [c \in Clients |-> NoTime]
    /\ savePending = [c \in Clients |-> FALSE]
    /\ nodeDebounceTimers = [c \in Clients |-> [k \in TimerKeys |-> NoTimer]]
    /\ connectionsSaveTimeout = [c \in Clients |-> FALSE]
    /\ lastUpdatedAt = [c \in Clients |-> NoTime]
    /\ isAuthenticated \in [Clients -> BOOLEAN]
    /\ gestures \in [Clients -> 0..MaxGestures]
    /\ \A c \in Clients : ~isAuthenticated[c] => gestures[c] = 0
    /\ requests = [c \in Clients |->
                     IF isAuthenticated[c]
                     THEN SetToBag({[Op("load", "fetch") EXCEPT !.row = FetchRow]})
                     ELSE EmptyBag]
    /\ editEndTimers = [c \in Clients |-> EmptyBag]
    /\ statusTimers = [c \in Clients |-> 0]
    /\ editSeq = [c \in Clients |-> 0]
    /\ fnRequests = EmptyBag
    /\ draggedNode = [c \in Clients |-> None]
    /\ file = [c \in Clients |-> NoFile]
    /\ alerts = [c \in Clients |-> None]
    /\ fnLog = <<>>
    /\ mentionsTable = {}
    /\ contextId = ""
    /\ previousMentions = {}
    /\ loading = FALSE
    /\ mentionFetches = EmptyBag
    /\ mentionSaves = EmptyBag
    /\ mentionCalls = [saves |-> 0, fetches |-> 0]
    /\ notifyLog = <<>>
    /\ session = NoUser
    /\ authEvents = <<[event |-> "INITIAL_SESSION", user |-> NoUser]>>
    /\ signOuts = 0
    /\ rolesTable = InitialRoles
    /\ googleUser = NoUser
    /\ accessDenied = FALSE
    /\ userRole = None
    /\ resolvingRef = FALSE
    /\ getSessionPending = TRUE
    /\ authOps = EmptyBag
    /\ inactivityTimers = {}
    /\ sinceActivity = 0
    /\ authCalls = [events |-> 0, roles |-> 0, timeouts |-> 0]

\* ------------------------------------------------- fetchData (load and poll)
\* setInterval(() => fetchData(true), 3000): a poll is issued; the select is
\* answered from the row as it is now, or fails in transport
PollInterval(c) ==
    /\ isAuthenticated[c]
    /\ polls < MaxPolls
    /\ polls' = polls + 1
    /\ requests' = [requests EXCEPT ![c] =
                      Put(@, [Op("poll", "fetch") EXCEPT !.row = FetchRow])]
    /\ UNCHANGED <<serverVars, now, failures, gestures, calls, lastApplied, docVars, uiVars,
                   refVars, timerVars, fnRequests, isAuthenticated, sideVars>>

\* a poll whose select fails in transport
PollIntervalFails(c) ==
    /\ isAuthenticated[c]
    /\ polls < MaxPolls
    /\ failures < MaxFailures
    /\ polls' = polls + 1
    /\ failures' = failures + 1
    /\ requests' = [requests EXCEPT ![c] =
                      Put(@, [Op("poll", "fetch") EXCEPT !.row = ErrorRow])]
    /\ UNCHANGED <<serverVars, now, gestures, calls, lastApplied, docVars, uiVars, refVars,
                   timerVars, fnRequests, isAuthenticated, sideVars>>

\* the select of the startup fetch fails in transport
FetchDataFails(c, op) ==
    /\ op \in OpsOf(c, "load", "fetch")
    /\ op.row.state # "error"
    /\ failures < MaxFailures
    /\ failures' = failures + 1
    /\ requests' = [requests EXCEPT ![c] = Put(Take(@, op), [op EXCEPT !.row = ErrorRow])]
    /\ UNCHANGED <<serverVars, now, gestures, polls, calls, lastApplied, docVars, uiVars,
                   refVars, timerVars, fnRequests, isAuthenticated, sideVars>>

\* fetchData, error branch: the load path clears isLoading and returns before
\* isInitialLoad is reset
FetchDataError(c, op) ==
    /\ op \in OpsOf(c, "load", "fetch") \cup OpsOf(c, "poll", "fetch")
    /\ op.row.state = "error"
    /\ requests' = [requests EXCEPT ![c] = Take(@, op)]
    /\ IF op.kind = "load"
       THEN /\ isLoading' = [isLoading EXCEPT ![c] = FALSE]
            /\ dirtyNodeIds' = [dirtyNodeIds EXCEPT ![c] = AfterRender(c, @)]
       ELSE UNCHANGED <<isLoading, dirtyNodeIds>>
    /\ UNCHANGED <<serverVars, now, historyVars, docVars, saveStatus,
                   selectedNodeId, editingField, isInitialLoad,
                   lastSaveTimestamp, savePending, lastUpdatedAt, timerVars,
                   fnRequests, isAuthenticated, sideVars>>

\* the three early returns of fetchData on a row that holds a document
FetchDataSkips(c, op) ==
    \/ op.kind = "poll" /\ savePending[c]
    \/ IsOwnEcho(lastSaveTimestamp[c], op.row.updated_at)
    \/ op.kind = "poll" /\ op.row.updated_at = lastUpdatedAt[c]

FetchDataSkip(c, op) ==
    /\ op \in OpsOf(c, "load", "fetch") \cup OpsOf(c, "poll", "fetch")
    /\ op.row.state = "full"
    /\ FetchDataSkips(c, op)
    /\ requests' = [requests EXCEPT ![c] = Take(@, op)]
    /\ UNCHANGED <<serverVars, now, historyVars, docVars, uiVars, refVars,
                   timerVars, fnRequests, isAuthenticated, sideVars>>

\* fetchData applies the fetched row: merge, connections, status, and on the
\* load path the end of the initial load
FetchDataApply(c, op) ==
    /\ op \in OpsOf(c, "load", "fetch") \cup OpsOf(c, "poll", "fetch")
    /\ op.row.state = "full"
    /\ ~FetchDataSkips(c, op)
    /\ requests' = [requests EXCEPT ![c] = Take(@, op)]
    /\ lastUpdatedAt' = [lastUpdatedAt EXCEPT ![c] = op.row.updated_at]
    /\ data' = [data EXCEPT ![c] =
                  MergeIncoming(@, parseDates(op.row), dirtyNodeIds[c])]
    /\ connections' = [connections EXCEPT ![c] = op.row.connections]
    /\ dirtyNodeIds' = [dirtyNodeIds EXCEPT ![c] = AfterRender(c, @)]
    /\ IF op.kind = "poll"
       THEN /\ saveStatus' = [saveStatus EXCEPT ![c] = "realtime"]
            /\ statusTimers' = [statusTimers EXCEPT ![c] = @ + 1]
            /\ UNCHANGED <<isLoading, isInitialLoad>>
       ELSE /\ saveStatus' = [saveStatus EXCEPT ![c] = "synced"]
            /\ isLoading' = [isLoading EXCEPT ![c] = FALSE]
            /\ isInitialLoad' = [isInitialLoad EXCEPT ![c] = FALSE]
            /\ UNCHANGED statusTimers
    /\ connectionsSaveTimeout' = [connectionsSaveTimeout EXCEPT ![c] =
                                    ConnectionsEffect(c, isInitialLoad'[c])]
    /\ Persist(c, isInitialLoad'[c], data'[c], connections'[c])
    /\ lastApplied' = [lastApplied EXCEPT ![c] = Applied(c, op.kind, op.row)]
    /\ UNCHANGED <<serverVars, now, failures, gestures, polls, calls, selectedNodeId, editingField,
                   lastSaveTimestamp, savePending, nodeDebounceTimers,
                   editEndTimers, editSeq, fnRequests, isAuthenticated, sideVars>>

\* fetchData, first-time branch: the row holds no document, so the default
\* document is written; the stamp is not recorded as this client's last save
FetchDataSeed(c, op) ==
    /\ op \in OpsOf(c, "load", "fetch") \cup OpsOf(c, "poll", "fetch")
    /\ op.row.state = "empty"
    /\ \E ts \in Stamps :
         /\ now' = ts
         /\ requests' = [requests EXCEPT ![c] =
              Put(Take(@, op),
                  [op EXCEPT !.pc = "write",
                             !.row = [Row(initialArchitectureData,
                                          loadLocalConnections, ts)
                                        EXCEPT !.by = c]])]
    /\ UNCHANGED <<serverVars, historyVars, docVars, uiVars, refVars,
                   timerVars, fnRequests, isAuthenticated, sideVars>>

\* the seeding upsert has answered (its error is not looked at)
FetchDataSeeded(c, op) ==
    /\ op \in OpsOf(c, "load", "resp") \cup OpsOf(c, "poll", "resp")
    /\ requests' = [requests EXCEPT ![c] = Take(@, op)]
    /\ IF op.kind = "load"
       THEN /\ isLoading' = [isLoading EXCEPT ![c] = FALSE]
            /\ isInitialLoad' = [isInitialLoad EXCEPT ![c] = FALSE]
            /\ dirtyNodeIds' = [dirtyNodeIds EXCEPT ![c] = AfterRender(c, @)]
       ELSE UNCHANGED <<isLoading, isInitialLoad, dirtyNodeIds>>
    /\ UNCHANGED <<serverVars, now, historyVars, docVars, saveStatus,
                   selectedNodeId, editingField, lastSaveTimestamp,
                   savePending, lastUpdatedAt, timerVars, fnRequests, isAuthenticated, sideVars>>

\* ------------------------------------------------------------ remote store
\* an upsert reaches the store: the row is replaced in full and every
\* subscribed client is notified
WriteKind(op) == IF op.kind \in {"load", "poll"} THEN "seed" ELSE op.kind
Notify(row) == [c \in Clients |-> IF isAuthenticated[c]
                                   THEN Append(channel[c], row) ELSE channel[c]]

Upsert(c, op) ==
    /\ op \in BagToSet(requests[c])
    /\ op.pc = "write"
    /\ Len(wlog) < MaxWrites
    /\ remote' = op.row
    /\ channel' = Notify(op.row)
    /\ wlog' = Append(wlog, [by |-> c, kind |-> WriteKind(op),
                             nodeId |-> op.nodeId, node |-> op.node,
                             before |-> remote, row |-> op.row])
    /\ requests' = [requests EXCEPT ![c] =
                      Put(Take(@, op), [op EXCEPT !.pc = "resp"])]
    /\ UNCHANGED <<now, historyVars, docVars, uiVars, refVars, timerVars,
                   fnRequests, isAuthenticated, sideVars>>

\* an upsert fails in transport: the row is untouched, the caller sees an error
UpsertFails(c, op) ==
    /\ op \in BagToSet(requests[c])
    /\ op.pc = "write"
    /\ failures < MaxFailures
    /\ failures' = failures + 1
    /\ requests' = [requests EXCEPT ![c] =
                      Put(Take(@, op), [op EXCEPT !.pc = "resp", !.err = TRUE])]
    /\ UNCHANGED <<serverVars, now, gestures, polls, calls, lastApplied, docVars, uiVars, refVars,
                   timerVars, fnRequests, isAuthenticated, sideVars>>

\* ------------------------------------------------ realtime postgres_changes
RealtimeSkips(c, newRow) ==
    \/ savePending[c]
    \/ IsOwnEcho(lastSaveTimestamp[c], newRow.updated_at)

RealtimeSkip(c) ==
    /\ channel[c] # <<>>
    /\ RealtimeSkips(c, Head(channel[c]))
    /\ channel' = [channel EXCEPT ![c] = Tail(@)]
    /\ UNCHANGED <<remote, wlog, now, historyVars, docVars, uiVars, refVars,
                   timerVars, requests, fnRequests, isAuthenticated, sideVars>>

RealtimeApply(c) ==
    /\ channel[c] # <<>>
    /\ ~RealtimeSkips(c, Head(channel[c]))
    /\ LET newRow == Head(channel[c])
       IN /\ data' = [data EXCEPT ![c] =
                        MergeIncoming(@, parseDates(newRow), dirtyNodeIds[c])]
          /\ connections' = [connections EXCEPT ![c] = newRow.connections]
          /\ Persist(c, isInitialLoad[c], data'[c], connections'[c])
    /\ channel' = [channel EXCEPT ![c] = Tail(@)]
    /\ saveStatus' = [saveStatus EXCEPT ![c] = "realtime"]
    /\ statusTimers' = [statusTimers EXCEPT ![c] = @ + 1]
    /\ dirtyNodeIds' = [dirtyNodeIds EXCEPT ![c] = AfterRender(c, @)]
    /\ connectionsSaveTimeout' = [connectionsSaveTimeout EXCEPT ![c] =
                                    ConnectionsEffect(c, isInitialLoad[c])]
    /\ lastApplied' = [lastApplied EXCEPT ![c] = Applied(c, "realtime", Head(channel[c]))]
    /\ UNCHANGED <<remote, wlog, now, failures, gestures, polls, calls, isLoading, selectedNodeId,
                   editingField, isInitialLoad, lastSaveTimestamp, savePending,
                   lastUpdatedAt, nodeDebounceTimers, editEndTimers, editSeq,
                   requests, fnRequests, isAuthenticated, sideVars>>

\* setTimeout(() => setSaveStatus(""), 2000)
StatusTimer(c) ==
    /\ statusTimers[c] > 0
    /\ statusTimers' = [statusTimers EXCEPT ![c] = @ - 1]
    /\ saveStatus' = [saveStatus EXCEPT ![c] = ""]
    /\ dirtyNodeIds' = [dirtyNodeIds EXCEPT ![c] =
                          IF saveStatus[c] # "" THEN AfterRender(c, @) ELSE @]
    /\ UNCHANGED <<serverVars, now, historyVars, docVars, isLoading,
                   selectedNodeId, editingField, isInitialLoad,
                   lastSaveTimestamp, savePending, lastUpdatedAt,
                   nodeDebounceTimers, connectionsSaveTimeout, editEndTimers,
                   editSeq, requests, fnRequests, isAuthenticated, sideVars>>

\* ------------------------------------------------------------ patchSaveNode
Pow2(n) == IF n = 0 THEN 1 ELSE IF n = 1 THEN 2 ELSE 4

\* the tail of patchSaveNode: flag cleared, status set, status timer started
PatchSaveEnds(c, op, success) ==
    /\ requests' = [requests EXCEPT ![c] = Take(@, op)]
    /\ savePending' = [savePending EXCEPT ![c] = FALSE]
    /\ saveStatus' = [saveStatus EXCEPT ![c] =
                        IF success THEN "synced" ELSE "offline"]
    /\ statusTimers' = [statusTimers EXCEPT ![c] = @ + 1]

\* a failed attempt: back off 1000 * 2^attempt ms unless it was the last one
HasBackoff(attempt) == attempt < MaxAttempts - 1

PatchSaveAttemptFailed(c, op) ==
    IF HasBackoff(op.attempt)
    THEN /\ requests' = [requests EXCEPT ![c] =
              Put(Take(@, op),
                  [op EXCEPT !.pc = "wait", !.err = FALSE,
                             !.waits = Append(@, BackoffBaseMs * Pow2(op.attempt))])]
         /\ UNCHANGED <<savePending, saveStatus, statusTimers, dirtyNodeIds>>
    ELSE /\ PatchSaveEnds(c, op, FALSE)
         /\ dirtyNodeIds' = [dirtyNodeIds EXCEPT ![c] = AfterRender(c, @)]

\* a node debounce timer fires and calls patchSaveNode(nodeId, updatedNode)
NodeDebounceTimer(c, id) ==
    /\ nodeDebounceTimers[c][id] # NoTimer
    /\ nodeDebounceTimers' = [nodeDebounceTimers EXCEPT ![c][id] = NoTimer]
    /\ IF ~nodeDebounceTimers[c][id].auth \/ isInitialLoad[c]
       THEN UNCHANGED <<saveStatus, savePending, requests, dirtyNodeIds>>
       ELSE /\ saveStatus' = [saveStatus EXCEPT ![c] = "saving"]
            /\ savePending' = [savePending EXCEPT ![c] = TRUE]
            /\ dirtyNodeIds' = [dirtyNodeIds EXCEPT ![c] =
                 IF saveStatus[c] # "saving" THEN AfterRender(c, @) ELSE @]
            /\ requests' = [requests EXCEPT ![c] =
                 Put(@, [Op("node", "fetch") EXCEPT
                           !.nodeId = nodeDebounceTimers[c][id].node.id,
                           !.node = nodeDebounceTimers[c][id].node])]
    /\ UNCHANGED <<serverVars, now, historyVars, docVars, isLoading,
                   selectedNodeId, editingField, isInitialLoad,
                   lastSaveTimestamp, lastUpdatedAt, connectionsSaveTimeout,
                   editEndTimers, statusTimers, editSeq, fnRequests, isAuthenticated, sideVars>>

\* an attempt that issues the upsert without recording its stamp
PatchSaveFetchUnstamped(c, op) ==
    /\ op \in OpsOf(c, "node", "fetch")
    /\ FetchRow.state # "error"
    /\ \E ts \in Stamps :
         /\ now' = ts
         /\ requests' = [requests EXCEPT ![c] =
              Put(Take(@, op),
                  [op EXCEPT !.pc = "write",
                             !.row = [Row(PatchMerge(parseDates(remote),
                                                     op.nodeId, op.node),
                                          remote.connections, ts)
                                        EXCEPT !.by = c]])]
    /\ UNCHANGED <<serverVars, historyVars, docVars, uiVars, isInitialLoad,
                   dirtyNodeIds, savePending, lastUpdatedAt, timerVars,
                   lastSaveTimestamp,
                   fnRequests, isAuthenticated, sideVars>>

\* steps 1 to 3 of an attempt: the row is fetched, the node merged in, the
\* stamp recorded as the last save, and the upsert issued
PatchSaveFetch(c, op) ==
    /\ op \in OpsOf(c, "node", "fetch")
    /\ FetchRow.state # "error"
    /\ \E ts \in Stamps :
         /\ now' = ts
         /\ lastSaveTimestamp' = [lastSaveTimestamp EXCEPT ![c] = ts]
         /\ requests' = [requests EXCEPT ![c] =
              Put(Take(@, op),
                  [op EXCEPT !.pc = "write",
                             !.row = [Row(PatchMerge(parseDates(remote),
                                                     op.nodeId, op.node),
                                          remote.connections, ts)
                                        EXCEPT !.by = c]])]
    /\ UNCHANGED <<serverVars, historyVars, docVars, uiVars, isInitialLoad,
                   dirtyNodeIds, savePending, lastUpdatedAt, timerVars,
                   fnRequests, isAuthenticated, sideVars>>

\* the fetch of an attempt fails (transport, or no row to select)
PatchSaveFetchFails(c, op) ==
    /\ op \in OpsOf(c, "node", "fetch")
    /\ \/ FetchRow.state = "error" /\ UNCHANGED failures
       \/ failures < MaxFailures /\ failures' = failures + 1
    /\ PatchSaveAttemptFailed(c, op)
    /\ UNCHANGED <<serverVars, now, gestures, polls, calls, lastApplied, docVars, isLoading,
                   selectedNodeId, editingField, isInitialLoad,
                   lastSaveTimestamp, lastUpdatedAt, nodeDebounceTimers,
                   connectionsSaveTimeout, editEndTimers, editSeq, fnRequests, isAuthenticated, sideVars>>

\* the backoff wait is over: the next attempt starts
PatchSaveBackoff(c, op) ==
    /\ op \in OpsOf(c, "node", "wait")
    /\ requests' = [requests EXCEPT ![c] =
         Put(Take(@, op),
             [op EXCEPT !.pc = "fetch", !.attempt = @ + 1, !.row = NoRow])]
    /\ UNCHANGED <<serverVars, now, historyVars, docVars, uiVars, refVars,
                   timerVars, fnRequests, isAuthenticated, sideVars>>

\* the upsert has answered: on success the saved node is put into the local
\* document and the save ends; on error the attempt has failed
ReconcileLocal(prev, nodeId, updatedNode) ==
    [prev EXCEPT !.components = ReplaceNode(@, nodeId, updatedNode)]

PatchSaveResp(c, op) ==
    /\ op \in OpsOf(c, "node", "resp")
    /\ IF op.err
       THEN /\ PatchSaveAttemptFailed(c, op)
            /\ UNCHANGED <<data, localStorage>>
       ELSE /\ data' = [data EXCEPT ![c] = ReconcileLocal(@, op.nodeId, op.node)]
            /\ Persist(c, isInitialLoad[c], data'[c], connections[c])
            /\ PatchSaveEnds(c, op, TRUE)
            /\ dirtyNodeIds' = [dirtyNodeIds EXCEPT ![c] = AfterRender(c, @)]
    /\ UNCHANGED <<serverVars, now, historyVars, connections, isLoading,
                   selectedNodeId, editingField, isInitialLoad,
                   lastSaveTimestamp, lastUpdatedAt, nodeDebounceTimers,
                   connectionsSaveTimeout, editEndTimers, editSeq, fnRequests, isAuthenticated, sideVars>>

\* ------------------------------------------------------------ edit gestures
\* handleUpdateNode: the optimistic local update and the per-node debounce
UpdatedComponents(comps, nodeId, val) ==
    [i \in DOMAIN comps |->
       IF comps[i].id = nodeId THEN [comps[i] EXCEPT !.val = val] ELSE comps[i]]

HandleUpdateNode(c, nodeId, val) ==
    /\ data' = [data EXCEPT ![c].components = UpdatedComponents(@, nodeId, val)]
    /\ Persist(c, isInitialLoad[c], data'[c], connections[c])
    /\ editSeq' = [editSeq EXCEPT ![c] = @ + 1]
    /\ nodeDebounceTimers' =
         IF nodeId \in Ids(data[c].components)
         THEN [nodeDebounceTimers EXCEPT ![c][nodeId] =
                 [node |-> FindNode(UpdatedComponents(data[c].components, nodeId, val),
                                    nodeId),
                  seq |-> editSeq[c] + 1, auth |-> isAuthenticated[c]]]
         ELSE nodeDebounceTimers

PanelNode(c) == FindNode(data[c].components, selectedNodeId[c])
\* the main view is shown once signed in and loaded; each browser has a
\* number of gestures left
CanGesture(c) == isAuthenticated[c] /\ ~isLoading[c] /\ gestures[c] > 0
Gesture(c) == gestures' = [gestures EXCEPT ![c] = @ - 1]
NewVals(c) == {v \in 0..MaxVal : v # PanelNode(c).val}
EndTimer(id, seq, closes) == [id |-> id, seq |-> seq, closes |-> closes]

\* a click on a node opens it in the DetailPanel; the panel's cleanup ends the
\* edit lock of the node shown before
SelectNode(c, id) ==
    /\ CanGesture(c)
    /\ Gesture(c)
    /\ id \in Ids(data[c].components)
    /\ id # selectedNodeId[c]
    /\ selectedNodeId' = [selectedNodeId EXCEPT ![c] = id]
    /\ editingField' = [editingField EXCEPT ![c] = FALSE]
    /\ dirtyNodeIds' = [dirtyNodeIds EXCEPT ![c] = AfterRender(c, @)]
    /\ UNCHANGED <<serverVars, now, failures, polls, calls, lastApplied, docVars, saveStatus, isLoading,
                   isInitialLoad, lastSaveTimestamp, savePending, lastUpdatedAt,
                   timerVars, requests, fnRequests, isAuthenticated, sideVars>>

\* startEdit: the edit lock is taken when an inline field opens
StartEdit(c) ==
    /\ CanGesture(c)
    /\ Gesture(c)
    /\ PanelNode(c) # NoNode
    /\ ~editingField[c]
    /\ editingField' = [editingField EXCEPT ![c] = TRUE]
    /\ dirtyNodeIds' = [dirtyNodeIds EXCEPT ![c] = @ \cup {selectedNodeId[c]}]
    /\ UNCHANGED <<serverVars, now, failures, polls, calls, lastApplied, docVars, saveStatus, isLoading,
                   selectedNodeId, isInitialLoad, lastSaveTimestamp,
                   savePending, lastUpdatedAt, timerVars, requests, fnRequests, isAuthenticated, sideVars>>

\* saveEdit: the update is handed to App, and the lock is ended 1000 ms later
SaveEdit(c, val) ==
    /\ CanGesture(c)
    /\ PanelNode(c) # NoNode
    /\ editingField[c]
    /\ val \in NewVals(c)
    /\ Gesture(c)
    /\ HandleUpdateNode(c, selectedNodeId[c], val)
    /\ editEndTimers' = [editEndTimers EXCEPT ![c] =
         Put(@, EndTimer(selectedNodeId[c], editSeq[c] + 1, TRUE))]
    /\ dirtyNodeIds' = [dirtyNodeIds EXCEPT ![c] = AfterRender(c, @)]
    /\ UNCHANGED <<serverVars, now, failures, polls, calls, lastApplied, connections, uiVars,
                   isInitialLoad, lastSaveTimestamp, savePending, lastUpdatedAt,
                   connectionsSaveTimeout, statusTimers, requests, fnRequests, isAuthenticated, sideVars>>

\* cancelEdit: the field closes and the lock is ended at once
CancelEdit(c) ==
    /\ CanGesture(c)
    /\ Gesture(c)
    /\ PanelNode(c) # NoNode
    /\ editingField[c]
    /\ editingField' = [editingField EXCEPT ![c] = FALSE]
    /\ dirtyNodeIds' = [dirtyNodeIds EXCEPT ![c] = @ \ {selectedNodeId[c]}]
    /\ UNCHANGED <<serverVars, now, failures, polls, calls, lastApplied, docVars, saveStatus, isLoading,
                   selectedNodeId, isInitialLoad, lastSaveTimestamp,
                   savePending, lastUpdatedAt, timerVars, requests, fnRequests, isAuthenticated, sideVars>>

\* protectedUpdate (tags, comments, weekly updates): lock, update, and a timer
\* that ends the lock 3000 ms later
ProtectedUpdate(c, val) ==
    /\ CanGesture(c)
    /\ PanelNode(c) # NoNode
    /\ val \in NewVals(c)
    /\ Gesture(c)
    /\ HandleUpdateNode(c, selectedNodeId[c], val)
    /\ editEndTimers' = [editEndTimers EXCEPT ![c] =
         Put(@, EndTimer(selectedNodeId[c], editSeq[c] + 1, FALSE))]
    /\ dirtyNodeIds' = [dirtyNodeIds EXCEPT ![c] =
                          AfterRender(c, @ \cup {selectedNodeId[c]})]
    /\ UNCHANGED <<serverVars, now, failures, polls, calls, lastApplied, connections, uiVars,
                   isInitialLoad, lastSaveTimestamp, savePending, lastUpdatedAt,
                   connectionsSaveTimeout, statusTimers, requests, fnRequests, isAuthenticated, sideVars>>

\* a setTimeout(onEditEnd) fires; it was set for longer than the debounce of
\* its own edit, so that debounce timer is no longer pending
EditEndTimer(c, t) ==
    /\ t \in BagToSet(editEndTimers[c])
    /\ nodeDebounceTimers[c][t.id].seq # t.seq
    /\ editEndTimers' = [editEndTimers EXCEPT ![c] = Take(@, t)]
    /\ dirtyNodeIds' = [dirtyNodeIds EXCEPT ![c] = @ \ {t.id}]
    /\ editingField' = [editingField EXCEPT ![c] = IF t.closes THEN FALSE ELSE @]
    /\ UNCHANGED <<serverVars, now, historyVars, docVars, saveStatus, isLoading,
                   selectedNodeId, isInitialLoad, lastSaveTimestamp,
                   savePending, lastUpdatedAt, nodeDebounceTimers,
                   connectionsSaveTimeout, statusTimers, editSeq, requests,
                   fnRequests, isAuthenticated, sideVars>>

\* ------------------------------------------------------------------ sign-out
\* clearSession (the Sign out button, or the inactivity timeout): fullyAuthed
\* turns false, App shows the unlock screen (the DetailPanel unmounts and its
\* cleanup ends the edit lock), the sync effect's cleanup removes the channel
\* and the poll interval, and the connections effect's cleanup clears its
\* timer; node debounce timers and operations in flight are left alone
ClearSession(c) ==
    /\ isAuthenticated[c]
    /\ isAuthenticated' = [isAuthenticated EXCEPT ![c] = FALSE]
    /\ channel' = [channel EXCEPT ![c] = <<>>]
    /\ connectionsSaveTimeout' = [connectionsSaveTimeout EXCEPT ![c] = FALSE]
    /\ dirtyNodeIds' = [dirtyNodeIds EXCEPT ![c] = AfterRender(c, @)]
    /\ editingField' = [editingField EXCEPT ![c] = FALSE]
    /\ UNCHANGED <<remote, wlog, now, historyVars, docVars, saveStatus, isLoading,
                   selectedNodeId, isInitialLoad, lastSaveTimestamp, savePending,
                   lastUpdatedAt, nodeDebounceTimers, editEndTimers, statusTimers,
                   editSeq, requests, fnRequests, sideVars>>

\* ----------------------------------------------------------------- add node
\* AddNodeDialog.handleAdd: the id of the new node is the slug of its name
\* handleAddNode: the node is appended to the local components and
\* patch-saved at once, without a debounce
HandleAddNode(c, node) ==
    /\ CanGesture(c)
    /\ Gesture(c)
    /\ data' = [data EXCEPT ![c].components = Append(@, node)]
    /\ Persist(c, isInitialLoad[c], data'[c], connections[c])
    /\ dirtyNodeIds' = [dirtyNodeIds EXCEPT ![c] = AfterRender(c, @)]
    /\ IF isInitialLoad[c]
       THEN UNCHANGED <<saveStatus, savePending, requests>>
       ELSE /\ saveStatus' = [saveStatus EXCEPT ![c] = "saving"]
            /\ savePending' = [savePending EXCEPT ![c] = TRUE]
            /\ requests' = [requests EXCEPT ![c] =
                 Put(@, [Op("node", "fetch") EXCEPT !.nodeId = node.id,
                                                     !.node = node])]
    /\ UNCHANGED <<serverVars, now, failures, polls, calls, lastApplied, connections,
                   isLoading, selectedNodeId, editingField, isInitialLoad,
                   lastSaveTimestamp, lastUpdatedAt, timerVars, fnRequests,
                   isAuthenticated, sideVars>>

\* ------------------------------------------------------- export and import
\* handleExport: the document and the connections are downloaded as JSON
HandleExport(c) ==
    /\ CanGesture(c)
    /\ Gesture(c)
    /\ \E ts \in Stamps :
         /\ now' = ts
         /\ file' = [file EXCEPT ![c] = ExportData(data[c], connections[c], ts)]
    /\ UNCHANGED <<serverVars, failures, polls, calls, lastApplied, docVars, uiVars,
                   refVars, timerVars, requests, fnRequests, isAuthenticated,
                   draggedNode, alerts, fnLog,
                   hookVars>>

\* the files a user can pick: the last export, text that is no JSON, an
\* object without the data key, one without the connections key, and one
\* whose data has no components list
MalformedFiles ==
    {Unparseable,
     [connections |-> <<>>],
     [data |-> [components |-> <<>>, tags |-> <<>>]],
     [data |-> [tags |-> <<>>], connections |-> <<>>]}
FilesToPick(c) == (IF file[c] = NoFile THEN {} ELSE {file[c]}) \cup MalformedFiles

\* handleImport, reader.onload: parse, test the two keys, set the state
ImportAccepts(f) == f # Unparseable /\ Has(f, "data") /\ Has(f, "connections")

HandleImport(c, f) ==
    /\ CanGesture(c)
    /\ Gesture(c)
    /\ f \in FilesToPick(c)
    /\ IF f = Unparseable
       THEN /\ alerts' = [alerts EXCEPT ![c] = "Failed to import file"]
            /\ UNCHANGED <<docVars, dirtyNodeIds, connectionsSaveTimeout>>
       ELSE IF ~ImportAccepts(f)
       THEN /\ alerts' = [alerts EXCEPT ![c] = "Invalid file format"]
            /\ UNCHANGED <<docVars, dirtyNodeIds, connectionsSaveTimeout>>
       ELSE /\ data' = [data EXCEPT ![c] = ParseDatesJson(f.data)]
            /\ connections' = [connections EXCEPT ![c] = f.connections]
            /\ Persist(c, isInitialLoad[c], data'[c], connections'[c])
            /\ alerts' = [alerts EXCEPT ![c] = "Data imported successfully!"]
            /\ dirtyNodeIds' = [dirtyNodeIds EXCEPT ![c] = AfterRender(c, @)]
            /\ connectionsSaveTimeout' = [connectionsSaveTimeout EXCEPT ![c] =
                                            ConnectionsEffect(c, isInitialLoad[c])]
    /\ UNCHANGED <<serverVars, now, failures, polls, calls, lastApplied, uiVars,
                   isInitialLoad, lastSaveTimestamp, savePending, lastUpdatedAt,
                   nodeDebounceTimers, editEndTimers, statusTimers, editSeq,
                   requests, fnRequests, isAuthenticated, draggedNode, file, fnLog,
                   hookVars>>

\* ------------------------------------------------------------- drag gestures
\* handleDragStart (mouse down on a node card) and handleDragEnd (mouse up)
HandleDragStart(c, id) ==
    /\ CanGesture(c)
    /\ draggedNode[c] = None
    /\ id \in Ids(data[c].components)
    /\ draggedNode' = [draggedNode EXCEPT ![c] = id]
    /\ dirtyNodeIds' = [dirtyNodeIds EXCEPT ![c] = AfterRender(c, @)]
    /\ UNCHANGED <<serverVars, now, historyVars, docVars, uiVars, isInitialLoad,
                   lastSaveTimestamp, savePending, lastUpdatedAt, timerVars,
                   requests, fnRequests, isAuthenticated, fileVars, fnLog,
                   hookVars>>

HandleDragEnd(c) ==
    /\ draggedNode[c] # None
    /\ draggedNode' = [draggedNode EXCEPT ![c] = None]
    /\ dirtyNodeIds' = [dirtyNodeIds EXCEPT ![c] = AfterRender(c, @)]
    /\ UNCHANGED <<serverVars, now, historyVars, docVars, uiVars, isInitialLoad,
                   lastSaveTimestamp, savePending, lastUpdatedAt, timerVars,
                   requests, fnRequests, isAuthenticated, fileVars, fnLog,
                   hookVars>>

\* handleDrag (mouse move): the dragged node takes the new position and a
\* 1000 ms debounce is set under the key drag-nodeId
DraggedComponents(comps, nodeId, pos) ==
    [i \in DOMAIN comps |->
       IF comps[i].id = nodeId THEN [comps[i] EXCEPT !.pos = pos] ELSE comps[i]]

HandleDrag(c, pos) ==
    /\ CanGesture(c)
    /\ draggedNode[c] # None
    /\ pos # FindNode(data[c].components, draggedNode[c]).pos
    /\ Gesture(c)
    /\ LET nodeId == draggedNode[c]
           updatedComponents == DraggedComponents(data[c].components, nodeId, pos)
       IN /\ data' = [data EXCEPT ![c].components = updatedComponents]
          /\ Persist(c, isInitialLoad[c], data'[c], connections[c])
          /\ IF nodeId \in Ids(updatedComponents)
             THEN /\ editSeq' = [editSeq EXCEPT ![c] = @ + 1]
                  /\ nodeDebounceTimers' =
                       [nodeDebounceTimers EXCEPT ![c][DragKey(nodeId)] =
                          [node |-> FindNode(updatedComponents, nodeId),
                           seq |-> editSeq[c] + 1, auth |-> isAuthenticated[c]]]
             ELSE UNCHANGED <<editSeq, nodeDebounceTimers>>
    /\ dirtyNodeIds' = [dirtyNodeIds EXCEPT ![c] = AfterRender(c, @)]
    /\ UNCHANGED <<serverVars, now, failures, polls, calls, lastApplied, connections,
                   uiVars, isInitialLoad, lastSaveTimestamp, savePending,
                   lastUpdatedAt, connectionsSaveTimeout, editEndTimers,
                   statusTimers, requests, fnRequests, isAuthenticated, draggedNode,
                   fileVars, fnLog,
                   hookVars>>

\* ---------------------------------------------------------- saveConnections
\* handleEndConnection / onAddArrow: an arrow is appended locally
HandleEndConnection(c, from, to) ==
    /\ CanGesture(c)
    /\ from # to
    /\ {from, to} \subseteq Ids(data[c].components)
    /\ Gesture(c)
    /\ connections' = [connections EXCEPT ![c] = Append(@, Conn(from, to))]
    /\ Persist(c, isInitialLoad[c], data[c], connections'[c])
    /\ dirtyNodeIds' = [dirtyNodeIds EXCEPT ![c] = AfterRender(c, @)]
    /\ connectionsSaveTimeout' = [connectionsSaveTimeout EXCEPT ![c] =
                                    ConnectionsEffect(c, isInitialLoad[c])]
    /\ UNCHANGED <<serverVars, now, failures, polls, calls, lastApplied, data, uiVars,
                   isInitialLoad, lastSaveTimestamp, savePending, lastUpdatedAt,
                   nodeDebounceTimers, editEndTimers, statusTimers, editSeq,
                   requests, fnRequests, isAuthenticated, sideVars>>

\* the 800 ms connections debounce fires and calls saveConnections(connections)
ConnectionsDebounceTimer(c) ==
    /\ connectionsSaveTimeout[c]
    /\ connectionsSaveTimeout' = [connectionsSaveTimeout EXCEPT ![c] = FALSE]
    /\ IF ~isAuthenticated[c] \/ isInitialLoad[c]
       THEN UNCHANGED <<saveStatus, requests, dirtyNodeIds>>
       ELSE /\ saveStatus' = [saveStatus EXCEPT ![c] = "saving"]
            /\ dirtyNodeIds' = [dirtyNodeIds EXCEPT ![c] =
                 IF saveStatus[c] # "saving" THEN AfterRender(c, @) ELSE @]
            /\ requests' = [requests EXCEPT ![c] =
                 Put(@, [Op("conn", "fetch") EXCEPT !.conns = connections[c]])]
    /\ UNCHANGED <<serverVars, now, historyVars, docVars, isLoading,
                   selectedNodeId, editingField, isInitialLoad,
                   lastSaveTimestamp, savePending, lastUpdatedAt,
                   nodeDebounceTimers, editEndTimers, statusTimers, editSeq,
                   fnRequests, isAuthenticated, sideVars>>

\* the write request of a collection-level save (connections, deletion, tag):
\* what it puts in place of the fetched row
ConnectionsRequest(op, ts) ==
    [remote EXCEPT !.connections = op.conns, !.updated_at = ts]
DeleteRequest(op, ts) ==
    Row([parseDates(remote) EXCEPT !.components = RemoveNode(@, op.nodeId)],
        remote.connections, ts)
TagRequest(op, ts) ==
    LET doc == parseDates(remote)
    IN Row([doc EXCEPT !.tags = IF op.tag \in Range(@) THEN @
                                 ELSE Append(@, op.tag)],
           remote.connections, ts)
WriteRequest(op, ts) ==
    CASE op.kind = "conn" -> ConnectionsRequest(op, ts)
      [] op.kind = "delete" -> DeleteRequest(op, ts)
      [] op.kind = "tag" -> TagRequest(op, ts)

CollectionKinds == {"conn", "delete", "tag"}
CollectionOps(c, pc) ==
    {o \in BagToSet(requests[c]) : o.kind \in CollectionKinds /\ o.pc = pc}

\* saveConnections / the deletion persist / the tag persist: fetch, stamp,
\* record the stamp as the last save, issue the upsert
CollectionSaveFetch(c, op) ==
    /\ op \in CollectionOps(c, "fetch")
    /\ FetchRow.state # "error"
    /\ \E ts \in Stamps :
         /\ now' = ts
         /\ lastSaveTimestamp' = [lastSaveTimestamp EXCEPT ![c] = ts]
         /\ requests' = [requests EXCEPT ![c] =
              Put(Take(@, op),
                  [op EXCEPT !.pc = "write",
                             !.row = [WriteRequest(op, ts) EXCEPT !.by = c]])]
    /\ UNCHANGED <<serverVars, historyVars, docVars, uiVars, isInitialLoad,
                   dirtyNodeIds, savePending, lastUpdatedAt, timerVars,
                   fnRequests, isAuthenticated, sideVars>>

\* their fetch fails: the function returns, the status stays as it is
CollectionSaveFetchFails(c, op) ==
    /\ op \in CollectionOps(c, "fetch")
    /\ \/ FetchRow.state = "error" /\ UNCHANGED failures
       \/ failures < MaxFailures /\ failures' = failures + 1
    /\ requests' = [requests EXCEPT ![c] = Take(@, op)]
    /\ UNCHANGED <<serverVars, now, gestures, polls, calls, lastApplied, docVars, uiVars, refVars,
                   timerVars, fnRequests, isAuthenticated, sideVars>>

\* their upsert has answered: status from the error, status timer started
CollectionSaveResp(c, op) ==
    /\ op \in CollectionOps(c, "resp")
    /\ requests' = [requests EXCEPT ![c] = Take(@, op)]
    /\ saveStatus' = [saveStatus EXCEPT ![c] =
                        IF op.err THEN "offline" ELSE "synced"]
    /\ statusTimers' = [statusTimers EXCEPT ![c] = @ + 1]
    /\ dirtyNodeIds' = [dirtyNodeIds EXCEPT ![c] = AfterRender(c, @)]
    /\ UNCHANGED <<serverVars, now, historyVars, docVars, isLoading,
                   selectedNodeId, editingField, isInitialLoad,
                   lastSaveTimestamp, savePending, lastUpdatedAt,
                   nodeDebounceTimers, connectionsSaveTimeout, editEndTimers,
                   editSeq, fnRequests, isAuthenticated, sideVars>>

\* handleDeleteNode: the node leaves the local document, the panel closes, and
\* the deletion persist starts
HandleDeleteNode(c) ==
    /\ CanGesture(c)
    /\ PanelNode(c) # NoNode
    /\ Gesture(c)
    /\ data' = [data EXCEPT ![c].components = RemoveNode(@, selectedNodeId[c])]
    /\ Persist(c, isInitialLoad[c], data'[c], connections[c])
    /\ selectedNodeId' = [selectedNodeId EXCEPT ![c] = None]
    /\ saveStatus' = [saveStatus EXCEPT ![c] = "saving"]
    /\ dirtyNodeIds' = [dirtyNodeIds EXCEPT ![c] = AfterRender(c, @)]
    /\ requests' = [requests EXCEPT ![c] =
         Put(@, [Op("delete", "fetch") EXCEPT !.nodeId = selectedNodeId[c]])]
    /\ UNCHANGED <<serverVars, now, failures, polls, calls, lastApplied, connections, isLoading,
                   editingField, isInitialLoad, lastSaveTimestamp, savePending,
                   lastUpdatedAt, timerVars, fnRequests, isAuthenticated, sideVars>>

\* handleCreateTag: the tag is appended locally and the tag persist starts
HandleCreateTag(c, tag) ==
    /\ CanGesture(c)
    /\ PanelNode(c) # NoNode
    /\ Gesture(c)
    /\ data' = [data EXCEPT ![c].tags = Append(@, tag)]
    /\ Persist(c, isInitialLoad[c], data'[c], connections[c])
    /\ saveStatus' = [saveStatus EXCEPT ![c] = "saving"]
    /\ dirtyNodeIds' = [dirtyNodeIds EXCEPT ![c] = AfterRender(c, @)]
    /\ requests' = [requests EXCEPT ![c] =
         Put(@, [Op("tag", "fetch") EXCEPT !.tag = tag])]
    /\ UNCHANGED <<serverVars, now, failures, polls, calls, lastApplied, connections, isLoading,
                   selectedNodeId, editingField, isInitialLoad,
                   lastSaveTimestamp, savePending, lastUpdatedAt, timerVars,
                   fnRequests, isAuthenticated, sideVars>>

\* ------------------------------------------------ delete-node edge function
\* a connection's source / target as the function reads them: the stored
\* connections carry from / to, so both reads give undefined
Undefined == "undefined"
SourceOf(conn) == IF "source" \in DOMAIN conn THEN conn.source ELSE Undefined
TargetOf(conn) == IF "target" \in DOMAIN conn THEN conn.target ELSE Undefined
KeepsConnection(conn, nodeId) ==
    SourceOf(conn) # nodeId /\ TargetOf(conn) # nodeId

\* the patched row of steps 6 and 7: the node is filtered out of components,
\* and the connections whose source or target is the node out of connections
PatchedRow(nodeId) ==
    [remote EXCEPT !.state = "full",
                   !.data.components = RemoveNode(@, nodeId),
                   !.connections = SelectSeq(@, LAMBDA k : KeepsConnection(k, nodeId)),
                   !.by = "fn"]

\* a request to the function: the HTTP method, the Authorization header (none:
\* missing or not 'Bearer <token>'; invalid: a token getUser rejects; valid),
\* the body (a nodeId, no nodeId, or text that is no JSON), the caller's
\* user_roles row, and the function's environment
NoJson == "no-json"
FnRequest(method, authorization, body, role, active, configured, roleLookupFails) ==
    [method |-> method, authorization |-> authorization, body |-> body,
     role |-> role, active |-> active, configured |-> configured,
     roleLookupFails |-> roleLookupFails]
FnRequests ==
    {q \in {FnRequest(m, a, b, r, act, conf, rl) :
               m \in {"POST", "GET", "OPTIONS"}, a \in {"none", "invalid", "valid"},
               b \in NodeIds \cup {None, NoJson}, r \in {"admin", "member", "none"},
               act \in BOOLEAN, conf \in BOOLEAN, rl \in BOOLEAN} :
        /\ q.role = "none" => ~q.active
        /\ ~q.configured => ~q.roleLookupFails}
\* the call of an active admin for a node
AdminRequest(nodeId) == FnRequest("POST", "valid", nodeId, "admin", TRUE, TRUE, FALSE)

\* a function whose step 5 lets every signed-in caller pass
StatusWithoutRoleCheck(req) ==
    IF req.method = "OPTIONS" THEN 200
    ELSE IF req.method # "POST" THEN 405
    ELSE IF req.authorization = "none" THEN 401
    ELSE IF req.body \in {None, NoJson} THEN 400
    ELSE IF ~req.configured THEN 500
    ELSE IF req.authorization # "valid" THEN 401
    ELSE 0
\* the answer of the checks before the row is fetched (method, steps 1 to 5);
\* 0 when they all pass
StatusOfChecks(req) ==
    IF req.method = "OPTIONS" THEN 200
    ELSE IF req.method # "POST" THEN 405
    ELSE IF req.authorization = "none" THEN 401
    ELSE IF req.body \in {None, NoJson} THEN 400
    ELSE IF ~req.configured THEN 500
    ELSE IF req.authorization # "valid" THEN 401
    ELSE IF req.roleLookupFails THEN 500
    ELSE IF req.role = "none" \/ req.role # "admin" \/ ~req.active THEN 403
    ELSE 0
Answer(req, status, wrote) ==
    [req |-> req, status |-> status, wrote |-> wrote, found |-> remote.state # "absent"]

\* the function is called: the checks are made, the row is fetched (404 when
\* there is none) and patched
DeleteNodeRequest(req) ==
    /\ calls < MaxCalls
    /\ calls' = calls + 1
    /\ IF StatusOfChecks(req) # 0
       THEN /\ fnLog' = Append(fnLog, Answer(req, StatusOfChecks(req), FALSE))
            /\ UNCHANGED fnRequests
       ELSE IF FetchRow.state = "error"
       THEN /\ fnLog' = Append(fnLog, Answer(req, 404, FALSE))
            /\ UNCHANGED fnRequests
       ELSE /\ fnRequests' = Put(fnRequests, [nodeId |-> req.body, req |-> req,
                                              row |-> PatchedRow(req.body)])
            /\ UNCHANGED fnLog
    /\ UNCHANGED <<serverVars, now, failures, gestures, polls, lastApplied, docVars, uiVars, refVars,
                   timerVars, requests, isAuthenticated, draggedNode, fileVars,
                   hookVars>>

\* an admin calls the function for a node
DeleteNodeCall(nodeId) == DeleteNodeRequest(AdminRequest(nodeId))

\* step 8: write back, stamped with the function's clock, and answer 200
DeleteNodeWrite(f) ==
    /\ f \in BagToSet(fnRequests)
    /\ Len(wlog) < MaxWrites
    /\ \E ts \in Stamps :
         LET row == [f.row EXCEPT !.updated_at = ts]
         IN /\ now' = ts
            /\ remote' = row
            /\ channel' = Notify(row)
            /\ wlog' = Append(wlog, [by |-> "fn", kind |-> "fn",
                                     nodeId |-> f.nodeId, node |-> NoNode,
                                     before |-> remote, row |-> row])
    /\ fnRequests' = Take(fnRequests, f)
    /\ fnLog' = Append(fnLog, Answer(f.req, 200, TRUE))
    /\ UNCHANGED <<historyVars, docVars, uiVars, refVars, timerVars, requests, isAuthenticated,
                   draggedNode, fileVars, hookVars>>

\* step 8 fails: nothing is written and the answer is 500
DeleteNodeWriteFails(f) ==
    /\ f \in BagToSet(fnRequests)
    /\ failures < MaxFailures
    /\ failures' = failures + 1
    /\ fnRequests' = Take(fnRequests, f)
    /\ fnLog' = Append(fnLog, Answer(f.req, 500, FALSE))
    /\ UNCHANGED <<serverVars, now, gestures, polls, calls, lastApplied, docVars,
                   uiVars, refVars, timerVars, requests, isAuthenticated,
                   draggedNode, fileVars, hookVars>>

\* ----------------------------------------------------------- specification
Requests(c) == BagToSet(requests[c])

\* load, realtime feed, remote store
\* ------------------------------------------- the four saves, as JSON is sent
\* the body of each upsert: parseDates on the fetched data, the change of
\* the save, and JSON.stringify of the result; saveConnections sends the
\* fetched data as it came
PatchPayload(row, nodeId, updatedNode) ==
    [data |-> DocJson(PatchMerge(ParseDatesJson(row.data), nodeId, updatedNode)),
     connections |-> row.connections]
ConnectionsPayload(row, newConnections) ==
    [data |-> row.data, connections |-> newConnections]
DeletePayload(row, nodeId) ==
    [data |-> DocJson([ParseDatesJson(row.data) EXCEPT
                         !.components = RemoveNode(@, nodeId)]),
     connections |-> row.connections]
TagPayload(row, newTag) ==
    [data |-> DocJson([ParseDatesJson(row.data) EXCEPT
                         !.tags = IF newTag \in Range(@) THEN @
                                  ELSE Append(@, newTag)]),
     connections |-> row.connections]
Payload(op, row) ==
    CASE op.kind = "node" -> PatchPayload(row, op.nodeId, op.node)
      [] op.kind = "conn" -> ConnectionsPayload(row, op.conns)
      [] op.kind = "delete" -> DeletePayload(row, op.nodeId)
      [] op.kind = "tag" -> TagPayload(row, op.tag)

\* a save has fetched the row: it records its marker and sends its body
SaveFetchJson(c, op) ==
    /\ op \in OpsOf(c, "node", "fetch") \cup CollectionOps(c, "fetch")
    /\ FetchRow.state # "error"
    /\ \E ts \in Stamps :
         /\ now' = ts
         /\ lastSaveTimestamp' = [lastSaveTimestamp EXCEPT ![c] = ts]
         /\ requests' = [requests EXCEPT ![c] =
              Put(Take(@, op),
                  [op EXCEPT !.pc = "write",
                             !.row = [Row(Payload(op, remote).data,
                                          Payload(op, remote).connections, ts)
                                        EXCEPT !.by = c]])]
    /\ UNCHANGED <<serverVars, historyVars, docVars, uiVars, isInitialLoad,
                   dirtyNodeIds, savePending, lastUpdatedAt, timerVars,
                   fnRequests, isAuthenticated, sideVars>>

PayloadNext == \E c \in Clients : \E op \in Requests(c) : SaveFetchJson(c, op)

SyncNext ==
    \/ \E c \in Clients : \E op \in Requests(c) : FetchDataApply(c, op)
    \/ \E c \in Clients : \E op \in Requests(c) : Upsert(c, op)
    \/ \E c \in Clients : RealtimeApply(c)
    \/ \E c \in Clients : StatusTimer(c)

\* a realtime notification is dropped (save pending, or own echo)
EchoNext == \E c \in Clients : RealtimeSkip(c)

\* the polling fallback, and a polled row that is dropped
PollNext == \E c \in Clients : PollInterval(c)
PollSkipNext == \E c \in Clients : \E op \in Requests(c) : FetchDataSkip(c, op)

\* first run: no row, or a row without a document
SeedNext ==
    \/ \E c \in Clients : \E op \in Requests(c) : FetchDataError(c, op)
    \/ \E c \in Clients : \E op \in Requests(c) : FetchDataSeed(c, op)
    \/ \E c \in Clients : \E op \in Requests(c) : FetchDataSeeded(c, op)

\* the startup fetch meets a remote-store error
StartFailNext ==
    \/ \E c \in Clients : \E op \in Requests(c) : FetchDataFails(c, op)
    \/ \E c \in Clients : \E op \in Requests(c) : FetchDataError(c, op)

\* the DetailPanel opens on a node
PanelNext == \E c \in Clients : \E id \in NodeIds : SelectNode(c, id)

\* protected updates of a node and their patch saves
NodeNext ==
    \/ \E c \in Clients : \E v \in 0..MaxVal : ProtectedUpdate(c, v)
    \/ \E c \in Clients : \E id \in NodeIds : NodeDebounceTimer(c, id)
    \/ \E c \in Clients : \E op \in Requests(c) : PatchSaveFetch(c, op)
    \/ \E c \in Clients : \E op \in Requests(c) : PatchSaveResp(c, op)
    \/ \E c \in Clients : \E t \in BagToSet(editEndTimers[c]) : EditEndTimer(c, t)

\* inline field edits
InlineNext ==
    \/ \E c \in Clients : StartEdit(c)
    \/ \E c \in Clients : \E v \in 0..MaxVal : SaveEdit(c, v)
    \/ \E c \in Clients : CancelEdit(c)

\* transport failures of a patch save
PatchFailNext ==
    \/ \E c \in Clients : \E op \in Requests(c) : UpsertFails(c, op)
    \/ \E c \in Clients : \E op \in Requests(c) : PatchSaveFetchFails(c, op)
    \/ \E c \in Clients : \E op \in Requests(c) : PatchSaveBackoff(c, op)

\* transport failures of a poll and of a collection-level save
OtherFailNext ==
    \/ \E c \in Clients : PollIntervalFails(c)
    \/ \E c \in Clients : \E op \in Requests(c) : CollectionSaveFetchFails(c, op)

\* transport failures of a collection-level save
SaveFailNext ==
    \/ \E c \in Clients : \E op \in Requests(c) : UpsertFails(c, op)
    \/ \E c \in Clients : \E op \in Requests(c) : CollectionSaveFetchFails(c, op)

\* arrows and the connections save
ConnectionsTimerNext == \E c \in Clients : ConnectionsDebounceTimer(c)
ArrowNext ==
    \/ \E c \in Clients : \E from, to \in NodeIds : HandleEndConnection(c, from, to)
    \/ \E c \in Clients : ConnectionsDebounceTimer(c)

\* the fetch and the answer of a collection-level save
CollectionNext ==
    \/ \E c \in Clients : \E op \in Requests(c) : CollectionSaveFetch(c, op)
    \/ \E c \in Clients : \E op \in Requests(c) : CollectionSaveResp(c, op)

\* drags of a node card and the debounce of the position save
DragNext ==
    \/ \E c \in Clients : \E id \in NodeIds : HandleDragStart(c, id)
    \/ \E c \in Clients : \E pos \in 0..MaxPos : HandleDrag(c, pos)
    \/ \E c \in Clients : HandleDragEnd(c)
    \/ \E c \in Clients : \E id \in NodeIds : NodeDebounceTimer(c, DragKey(id))

\* a node is added through the AddNodeDialog
AddNext ==
    \E c \in Clients : \E id \in NodeIds : \E v \in 0..MaxVal :
        HandleAddNode(c, Node(id, v))

\* export to a file and import of a file
FileNext ==
    \/ \E c \in Clients : HandleExport(c)
    \/ \E c \in Clients : \E f \in FilesToPick(c) : HandleImport(c, f)

DeleteNext == \E c \in Clients : HandleDeleteNode(c)
\* sign-out or inactivity timeout
SessionNext == \E c \in Clients : ClearSession(c)
TagNext == \E c \in Clients : \E tag \in TagIds : HandleCreateTag(c, tag)

\* the delete-node edge function
FunctionNext ==
    \/ \E id \in NodeIds : DeleteNodeCall(id)
    \/ \E f \in BagToSet(fnRequests) : DeleteNodeWrite(f)

\* ------------------------------------------------------------- useMentions
\* the hook of one DetailPanel for one field; a mention set is the set of the
\* user_ids of its MentionedUser entries
MentionUsers == {"u1", "u2"}
MentionNode == "A"
appVars == <<serverVars, now, historyVars, docVars, uiVars, refVars, timerVars,
             requests, fnRequests, isAuthenticated, draggedNode, fileVars, fnLog>>
mainVars == <<appVars, authVars>>

\* the effect on [contextType, contextId, field]: a node is selected, the
\* select is sent; previousMentions keeps the value it had
SelectMentionContext ==
    /\ contextId = ""
    /\ mentionCalls.fetches < MaxMentionFetches
    /\ mentionCalls' = [mentionCalls EXCEPT !.fetches = @ + 1]
    /\ contextId' = MentionNode
    /\ loading' = TRUE
    /\ mentionFetches' = Put(mentionFetches, [state |-> "sent", data |-> {}])
    /\ UNCHANGED <<mainVars, mentionsTable, previousMentions, mentionSaves, notifyLog>>

\* the effect with contextId "": the panel has no node
ClearMentionContext ==
    /\ contextId # ""
    /\ contextId' = ""
    /\ loading' = FALSE
    /\ UNCHANGED <<mainVars, mentionsTable, previousMentions, mentionFetches,
                   mentionSaves, mentionCalls, notifyLog>>

\* the database answers the select with the rows it holds, or with an error
MentionsSelect(f, ok) ==
    /\ f \in BagToSet(mentionFetches)
    /\ f.state = "sent"
    /\ mentionFetches' = Put(Take(mentionFetches, f),
                             IF ok THEN [state |-> "read", data |-> mentionsTable]
                             ELSE [state |-> "error", data |-> {}])
    /\ UNCHANGED <<mainVars, mentionsTable, contextId, previousMentions, loading,
                   mentionSaves, mentionCalls, notifyLog>>

\* .then of the select
MentionsFetched(f) ==
    /\ f \in BagToSet(mentionFetches)
    /\ f.state # "sent"
    /\ previousMentions' = IF f.state = "read" THEN f.data ELSE previousMentions
    /\ loading' = FALSE
    /\ mentionFetches' = Take(mentionFetches, f)
    /\ UNCHANGED <<mainVars, mentionsTable, contextId, mentionSaves, mentionCalls,
                   notifyLog>>

\* the page is loaded again: the hook is constructed anew
ReloadMentions ==
    /\ mentionFetches = EmptyBag
    /\ mentionSaves = EmptyBag
    /\ previousMentions # {} \/ contextId # ""
    /\ previousMentions' = {}
    /\ contextId' = ""
    /\ loading' = FALSE
    /\ UNCHANGED <<mainVars, mentionsTable, mentionFetches, mentionSaves,
                   mentionCalls, notifyLog>>

\* step 1 of saveMentions
NetNew(currentMentions, prev) == {m \in currentMentions : m \notin prev}

\* saveMentions up to its first await: nothing without a node or a user; with
\* no mention at all it runs to its end
SaveMentions(currentMentions, currentUser) ==
    /\ mentionCalls.saves < MaxMentionSaves
    /\ mentionCalls' = [mentionCalls EXCEPT !.saves = @ + 1]
    /\ IF contextId = "" \/ currentUser = NoUser
       THEN UNCHANGED <<previousMentions, mentionSaves>>
       ELSE IF currentMentions = {}
       THEN /\ previousMentions' = currentMentions
            /\ UNCHANGED mentionSaves
       ELSE /\ mentionSaves' =
                 Put(mentionSaves,
                     [pc |-> "upsert", currentMentions |-> currentMentions,
                      netNew |-> NetNew(currentMentions, previousMentions),
                      persisted |-> mentionsTable])
            /\ UNCHANGED previousMentions
    /\ UNCHANGED <<mainVars, mentionsTable, contextId, loading, mentionFetches,
                   notifyLog>>

\* the upsert is answered (rows that exist are left alone; an error is only
\* logged); with net-new mentions notify-mentions is invoked, without any
\* saveMentions runs to its end
MentionsUpserted(sv, ok) ==
    /\ sv \in BagToSet(mentionSaves)
    /\ sv.pc = "upsert"
    /\ mentionsTable' = IF ok THEN mentionsTable \cup sv.currentMentions
                        ELSE mentionsTable
    /\ IF sv.netNew # {}
       THEN /\ mentionSaves' = Put(Take(mentionSaves, sv), [sv EXCEPT !.pc = "notify"])
            /\ notifyLog' = Append(notifyLog, [to |-> sv.netNew,
                                               persisted |-> sv.persisted])
            /\ UNCHANGED previousMentions
       ELSE /\ mentionSaves' = Take(mentionSaves, sv)
            /\ previousMentions' = sv.currentMentions
            /\ UNCHANGED notifyLog
    /\ UNCHANGED <<mainVars, contextId, loading, mentionFetches, mentionCalls>>

\* notify-mentions has answered, with or without an error, or has thrown:
\* step 4
MentionsNotified(sv) ==
    /\ sv \in BagToSet(mentionSaves)
    /\ sv.pc = "notify"
    /\ mentionSaves' = Take(mentionSaves, sv)
    /\ previousMentions' = sv.currentMentions
    /\ UNCHANGED <<mainVars, mentionsTable, contextId, loading, mentionFetches,
                   mentionCalls, notifyLog>>

\* the mention hook of one panel
MentionNext ==
    \/ SelectMentionContext
    \/ ClearMentionContext
    \/ ReloadMentions
    \/ \E f \in BagToSet(mentionFetches) : \E ok \in BOOLEAN : MentionsSelect(f, ok)
    \/ \E f \in BagToSet(mentionFetches) : MentionsFetched(f)
    \/ \E cur \in SUBSET MentionUsers : \E u \in {NoUser, Ann} : SaveMentions(cur, u)
    \/ \E sv \in BagToSet(mentionSaves) : \E ok \in BOOLEAN : MentionsUpserted(sv, ok)
    \/ \E sv \in BagToSet(mentionSaves) : MentionsNotified(sv)

\* ------------------------------------------------------------------ useAuth
\* the hook of one browser; the bootstrap effect stays mounted until the page
\* is loaded again
FullyAuthed(user, denied) == user # NoUser /\ ~denied

\* a live timer: held says that inactivityTimer.current is its id
NewTimer == [held |-> TRUE, age |-> 0]
\* clearTimeout(inactivityTimer.current)
ClearTimeoutOfRef(timers) == {t \in timers : ~t.held}
\* a reset that leaves the earlier timer running
ResetWithoutClear(timers) == {[t EXCEPT !.held = FALSE] : t \in timers} \cup {NewTimer}
\* resetInactivityTimer
ResetInactivityTimer(timers) == ClearTimeoutOfRef(timers) \cup {NewTimer}

\* the inactivity tracking effect, run when fullyAuthed has changed
InactivityEffect(wasAuthed, isAuthed, timers) ==
    IF wasAuthed = isAuthed THEN timers
    ELSE IF isAuthed THEN ResetInactivityTimer(timers)
    ELSE ClearTimeoutOfRef(timers)

\* setGoogleUser and setAccessDenied, and the effects of the render they cause
SetAuth(user, denied, timers) ==
    /\ googleUser' = user
    /\ accessDenied' = denied
    /\ inactivityTimers' = InactivityEffect(FullyAuthed(googleUser, accessDenied),
                                           FullyAuthed(user, denied), timers)
    /\ sinceActivity' = IF FullyAuthed(user, denied) /\ ~FullyAuthed(googleUser, accessDenied)
                        THEN 0 ELSE sinceActivity

\* the 'deny' branch of handleUser
DenyAccess ==
    /\ SetAuth(NoUser, TRUE, inactivityTimers)
    /\ signOuts' = signOuts + 1
    /\ resolvingRef' = FALSE

\* handleUser up to the first await that waits for the network: a user from a
\* domain outside the list is denied at once
HandleUser(user) ==
    IF user = NoUser
    THEN /\ SetAuth(NoUser, accessDenied, inactivityTimers)
         /\ UNCHANGED <<resolvingRef, authOps, signOuts>>
    ELSE IF resolvingRef
    THEN UNCHANGED <<googleUser, accessDenied, inactivityTimers, sinceActivity,
                     resolvingRef, authOps, signOuts>>
    ELSE IF ~DomainAllowed(user)
    THEN DenyAccess /\ UNCHANGED authOps
    ELSE /\ resolvingRef' = TRUE
         /\ authOps' = Put(authOps, [user |-> user, pc |-> "lookup", found |-> NoRoleRow])
         /\ UNCHANGED <<googleUser, accessDenied, inactivityTimers, sinceActivity,
                        signOuts>>

\* .then of getSession()
GetSessionAnswers ==
    /\ getSessionPending
    /\ getSessionPending' = FALSE
    /\ HandleUser(session)
    /\ UNCHANGED <<appVars, mentionVars, session, authEvents, rolesTable, userRole,
                   authCalls>>

\* the listener of onAuthStateChange is handed the next event
AuthEvent ==
    /\ authEvents # <<>>
    /\ authEvents' = Tail(authEvents)
    /\ IF Head(authEvents).event = "SIGNED_OUT"
       THEN /\ SetAuth(NoUser, accessDenied, inactivityTimers)
            /\ UNCHANGED <<resolvingRef, authOps, signOuts>>
       ELSE HandleUser(Head(authEvents).user)
    /\ UNCHANGED <<appVars, mentionVars, session, rolesTable, userRole,
                   getSessionPending, authCalls>>

\* the select on user_roles is answered: with an error or an exception
\* (fail open), or with the row of the user, or with none
RoleLookupAnswers(op, failed) ==
    /\ op \in BagToSet(authOps)
    /\ op.pc = "lookup"
    /\ LET row == rolesTable[op.user]
       IN IF failed
          THEN /\ userRole' = "member"
               /\ authOps' = Put(Take(authOps, op), [op EXCEPT !.pc = "upsert"])
               /\ UNCHANGED <<rolesTable, googleUser, accessDenied, inactivityTimers,
                              sinceActivity, signOuts, resolvingRef>>
          ELSE IF row.exists /\ ~row.active
          THEN /\ DenyAccess
               /\ authOps' = Take(authOps, op)
               /\ UNCHANGED <<rolesTable, userRole>>
          ELSE /\ userRole' = IF row.exists THEN row.role ELSE "member"
               /\ rolesTable' = IF row.exists THEN rolesTable
                                ELSE [rolesTable EXCEPT ![op.user] = RoleRow("member", TRUE)]
               /\ authOps' = Put(Take(authOps, op),
                                 [op EXCEPT !.pc = "upsert", !.found = row])
               /\ UNCHANGED <<googleUser, accessDenied, inactivityTimers,
                              sinceActivity, signOuts, resolvingRef>>
    /\ UNCHANGED <<appVars, mentionVars, session, authEvents, getSessionPending,
                   authCalls>>

\* upsertUserRecord has ended: resolveUserAccess returns 'allow'
UserRecordUpserted(op) ==
    /\ op \in BagToSet(authOps)
    /\ op.pc = "upsert"
    /\ SetAuth(op.user, accessDenied, inactivityTimers)
    /\ resolvingRef' = FALSE
    /\ authOps' = Take(authOps, op)
    /\ UNCHANGED <<appVars, mentionVars, session, authEvents, signOuts, rolesTable,
                   userRole, getSessionPending, authCalls>>

\* clearSession
ClearAuthSession(timers) ==
    /\ inactivityTimers' = ClearTimeoutOfRef(timers)
    /\ googleUser' = NoUser
    /\ userRole' = None
    /\ accessDenied' = FALSE
    /\ signOuts' = signOuts + 1
    /\ UNCHANGED <<appVars, mentionVars, session, authEvents, rolesTable, resolvingRef,
                   getSessionPending, authOps, sinceActivity>>

\* the callback of the inactivity timer
InactivityTimerFires(t) ==
    /\ t \in inactivityTimers
    /\ t.age >= INACTIVITY_TIMEOUT_MS
    /\ ClearAuthSession(inactivityTimers \ {t})
    /\ authCalls' = [authCalls EXCEPT !.timeouts = @ + 1]

\* the sign-out button
Logout ==
    /\ FullyAuthed(googleUser, accessDenied)
    /\ ClearAuthSession(inactivityTimers)
    /\ UNCHANGED authCalls

\* mousemove, mousedown, keydown, scroll or touchstart while the listeners are
\* attached
Activity ==
    /\ FullyAuthed(googleUser, accessDenied)
    /\ inactivityTimers' = ResetInactivityTimer(inactivityTimers)
    /\ sinceActivity' = 0
    /\ UNCHANGED <<appVars, mentionVars, session, authEvents, signOuts, rolesTable,
                   googleUser, accessDenied, userRole, resolvingRef, getSessionPending,
                   authOps, authCalls>>

\* the time that can pass before the next timer is due, one tick at most
TimeToPass(timers) ==
    LET left == {INACTIVITY_TIMEOUT_MS - t.age : t \in timers} \cup {InactivityTickMs}
    IN CHOOSE d \in left : \A e \in left : d <= e

\* time passes; a timer that is due fires before more time passes
AuthTick ==
    /\ \A t \in inactivityTimers : t.age < INACTIVITY_TIMEOUT_MS
    /\ inactivityTimers' = {[t EXCEPT !.age = @ + TimeToPass(inactivityTimers)] :
                              t \in inactivityTimers}
    /\ sinceActivity' = IF FullyAuthed(googleUser, accessDenied)
                        THEN sinceActivity + TimeToPass(inactivityTimers)
                        ELSE sinceActivity
    /\ UNCHANGED <<appVars, mentionVars, session, authEvents, signOuts, rolesTable,
                   googleUser, accessDenied, userRole, resolvingRef, getSessionPending,
                   authOps, authCalls>>

\* supabase.auth: a signOut() call completes
SignOutCompletes ==
    /\ signOuts > 0
    /\ signOuts' = signOuts - 1
    /\ session' = NoUser
    /\ authEvents' = Append(authEvents, [event |-> "SIGNED_OUT", user |-> NoUser])
    /\ UNCHANGED <<appVars, mentionVars, rolesTable, googleUser, accessDenied, userRole,
                   resolvingRef, getSessionPending, authOps, inactivityTimers,
                   sinceActivity, authCalls>>

\* supabase.auth: the session is refreshed, or a sign-in in another tab of the
\* browser reaches this one
SessionEvent(event, user) ==
    /\ authCalls.events < MaxAuthEvents
    /\ authCalls' = [authCalls EXCEPT !.events = @ + 1]
    /\ user # NoUser
    /\ event = "TOKEN_REFRESHED" => user = session
    /\ session' = user
    /\ authEvents' = Append(authEvents, [event |-> event, user |-> user])
    /\ UNCHANGED <<appVars, mentionVars, signOuts, rolesTable, googleUser, accessDenied,
                   userRole, resolvingRef, getSessionPending, authOps, inactivityTimers,
                   sinceActivity>>

\* the page is loaded, after the redirect of a Google sign-in or by the
\* user: the hook is constructed anew and the session is reported twice
AuthReload(user) ==
    /\ authCalls.events < MaxAuthEvents
    /\ authCalls' = [authCalls EXCEPT !.events = @ + 1]
    /\ session' = user
    /\ authEvents' = <<[event |-> "INITIAL_SESSION", user |-> user]>>
    /\ googleUser' = NoUser
    /\ accessDenied' = FALSE
    /\ userRole' = None
    /\ resolvingRef' = FALSE
    /\ getSessionPending' = TRUE
    /\ authOps' = EmptyBag
    /\ inactivityTimers' = {}
    /\ UNCHANGED <<appVars, mentionVars, signOuts, rolesTable, sinceActivity>>

\* UserManagementPanel: an admin revokes or restores a user's access
ToggleActive(user) ==
    /\ rolesTable[user].exists
    /\ authCalls.roles < MaxRoleChanges
    /\ authCalls' = [authCalls EXCEPT !.roles = @ + 1]
    /\ rolesTable' = [rolesTable EXCEPT ![user].active = ~@]
    /\ UNCHANGED <<appVars, mentionVars, session, authEvents, signOuts, googleUser,
                   accessDenied, userRole, resolvingRef, getSessionPending, authOps,
                   inactivityTimers, sinceActivity>>

\* the auth hook of one browser, the auth client and the admin panel
AuthNext ==
    \/ GetSessionAnswers
    \/ AuthEvent
    \/ \E op \in BagToSet(authOps) : \E failed \in BOOLEAN : RoleLookupAnswers(op, failed)
    \/ \E op \in BagToSet(authOps) : UserRecordUpserted(op)
    \/ \E t \in inactivityTimers : InactivityTimerFires(t)
    \/ Logout
    \/ Activity
    \/ AuthTick
    \/ SignOutCompletes
    \/ \E u \in AuthUsers : \E e \in {"SIGNED_IN", "TOKEN_REFRESHED"} : SessionEvent(e, u)
    \/ \E u \in AuthUsers \cup {session} : AuthReload(u)
    \/ \E u \in AuthUsers : ToggleActive(u)

\* any request to the delete-node function, and a failure of its write
FunctionRequestNext ==
    \/ \E req \in FnRequests : DeleteNodeRequest(req)
    \/ \E f \in BagToSet(fnRequests) : DeleteNodeWrite(f)
    \/ \E f \in BagToSet(fnRequests) : DeleteNodeWriteFails(f)

Next ==
    \/ SyncNext \/ EchoNext \/ PollNext \/ PollSkipNext \/ SeedNext \/ PanelNext
    \/ NodeNext \/ InlineNext \/ PatchFailNext \/ OtherFailNext \/ ArrowNext
    \/ CollectionNext \/ DeleteNext \/ TagNext \/ FunctionNext \/ DragNext
    \/ SessionNext \/ FileNext \/ AddNext \/ FunctionRequestNext \/ MentionNext \/ StartFailNext
    \/ PayloadNext
    \/ AuthNext

\* one browser is signed in, with n gestures
Solo(n) == /\ isAuthenticated = [c \in Clients |-> c = "c1"]
           /\ gestures = [c \in Clients |-> IF c = "c1" THEN n ELSE 0]
\* the row exists and holds a document; one browser is signed in, or both
InitSolo == Init /\ remote.state = "full" /\ Solo(MaxGestures)
InitFew == Init /\ remote.state = "full" /\ Solo(FewGestures)
InitArrows == Init /\ remote.state = "full" /\ Solo(ArrowGestures)
InitDuo == Init /\ remote.state = "full"
                /\ isAuthenticated = [c \in Clients |-> TRUE]
                /\ gestures = [c \in Clients |-> DuoGestures]
\* the documents a browser can hold once loaded: nodes with a lastUpdated
\* Date and comments, tags, milestones
LoadedComment(t) == [id |-> "k", timestamp |-> DateOf(t)]
LoadedNode(id, t, comments) ==
    [id |-> id, val |-> 0, pos |-> 0, lastUpdated |-> DateOf(t), comments |-> comments]
LoadedNodes(id) ==
    {LoadedNode(id, t, k) : t \in {0, TickMs},
                            k \in {<<>>, <<LoadedComment(0)>>, <<LoadedComment(TickMs)>>}}
LoadedDocs ==
    {[components |-> comps, tags |-> tags, milestones |-> ms] :
        comps \in {<<>>} \cup {<<n>> : n \in LoadedNodes("A")}
                        \cup {<<n, LoadedNode("B", 0, <<>>)>> : n \in LoadedNodes("A")},
        tags \in {<<>>, <<"t">>},
        ms \in {<<>>, <<[id |-> "m", createdAt |-> DateOf(TickMs)]>>}}
\* one browser has finished its initial load and holds document d and
\* connections conns; the remote row is row, and reqs are its saves in flight
InitLoaded(row, d, conns, reqs) ==
        /\ remote = row
        /\ channel = [c \in Clients |-> <<>>]
        /\ now = 0
        /\ wlog = <<>>
        /\ failures = 0
        /\ calls = 0
        /\ polls = 0
        /\ lastApplied = [c \in Clients |->
                            IF c = "c1" THEN [at |-> 0, path |-> "load", kept |-> {}]
                            ELSE NoApply]
        /\ data = [c \in Clients |-> IF c = "c1" THEN d ELSE initialArchitectureData]
        /\ connections = [c \in Clients |->
                            IF c = "c1" THEN conns ELSE loadLocalConnections]
        /\ localStorage = [c \in Clients |->
                             IF c = "c1" THEN StoredItems(d, conns) ELSE NoItems]
        /\ saveStatus = [c \in Clients |-> IF c = "c1" THEN "synced" ELSE ""]
        /\ isLoading = [c \in Clients |-> c # "c1"]
        /\ isInitialLoad = [c \in Clients |-> c # "c1"]
        /\ selectedNodeId = [c \in Clients |-> None]
        /\ editingField = [c \in Clients |-> FALSE]
        /\ dirtyNodeIds = [c \in Clients |-> {}]
        /\ lastSaveTimestamp = [c \in Clients |-> NoTime]
        /\ savePending = [c \in Clients |-> FALSE]
        /\ nodeDebounceTimers = [c \in Clients |-> [k \in TimerKeys |-> NoTimer]]
        /\ connectionsSaveTimeout = [c \in Clients |-> c = "c1"]
        /\ lastUpdatedAt = [c \in Clients |-> IF c = "c1" THEN 0 ELSE NoTime]
        /\ Solo(FileGestures)
        /\ requests = [c \in Clients |-> IF c = "c1" THEN reqs ELSE EmptyBag]
        /\ editEndTimers = [c \in Clients |-> EmptyBag]
        /\ statusTimers = [c \in Clients |-> 0]
        /\ editSeq = [c \in Clients |-> 0]
        /\ fnRequests = EmptyBag
        /\ draggedNode = [c \in Clients |-> None]
        /\ file = [c \in Clients |-> NoFile]
        /\ alerts = [c \in Clients |-> None]
        /\ fnLog = <<>>
        /\ mentionsTable = {}
        /\ contextId = ""
        /\ previousMentions = {}
        /\ loading = FALSE
        /\ mentionFetches = EmptyBag
        /\ mentionSaves = EmptyBag
        /\ mentionCalls = [saves |-> 0, fetches |-> 0]
        /\ notifyLog = <<>>
        /\ session = NoUser
        /\ authEvents = <<[event |-> "INITIAL_SESSION", user |-> NoUser]>>
        /\ signOuts = 0
        /\ rolesTable = InitialRoles
        /\ googleUser = NoUser
        /\ accessDenied = FALSE
        /\ userRole = None
        /\ resolvingRef = FALSE
        /\ getSessionPending = TRUE
        /\ authOps = EmptyBag
        /\ inactivityTimers = {}
        /\ sinceActivity = 0
        /\ authCalls = [events |-> 0, roles |-> 0, timeouts |-> 0]
\* one browser has finished its initial load of a row that holds one of these
\* documents
InitFile ==
    \E d \in LoadedDocs : \E conns \in {<<>>, DefaultConnections} :
        InitLoaded(Row(DocJson(d), conns, 0), d, conns, EmptyBag)
\* the documents a row can hold that the saves of this program wrote: every
\* timestamp is the toJSON value of a Date, an ISO string or, for an Invalid
\* Date, null
StoredNode(id, lu) ==
    [id |-> id, val |-> 0, pos |-> 0, lastUpdated |-> lu, comments |-> <<>>]
StoredStamps == {IsoString(0), IsoString(TickMs), JsonNull}
StoredDocs ==
    {[components |-> <<StoredNode("A", a), StoredNode("B", b)>>,
      tags |-> tags, milestones |-> <<>>] :
        a \in StoredStamps, b \in StoredStamps, tags \in {<<>>, <<"t">>}}
\* the saves a loaded browser can have started
StartedSaves ==
    {[Op("node", "fetch") EXCEPT !.nodeId = n.id, !.node = n] :
        n \in LoadedNodes("A") \cup {LoadedNode("B", 0, <<>>)}}
    \cup {[Op("conn", "fetch") EXCEPT !.conns = k] : k \in {<<>>, DefaultConnections}}
    \cup {[Op("delete", "fetch") EXCEPT !.nodeId = id] : id \in NodeIds}
    \cup {[Op("tag", "fetch") EXCEPT !.tag = "t"]}
\* one loaded browser has started one save; the row holds a stored document
\* that need not be the browser's own
InitPayload ==
    \E stored \in StoredDocs : \E d \in LoadedDocs : \E op \in StartedSaves :
        \E conns \in {<<>>, DefaultConnections} :
            InitLoaded(Row(stored, DefaultConnections, 0), d, conns, SetToBag({op}))
\* no browser acts; the row is missing, holds no document, or holds one
InitFunction == Init /\ Solo(0)
\* first run of one browser: the row is missing, or holds no document
InitSeed == Init /\ remote.state # "full" /\ Solo(0)

Spec == Init /\ [][Next]_vars
\* one browser edits nodes while the delete-node function is called
SpecSolo ==
    InitSolo /\ [][SyncNext \/ EchoNext \/ PollNext \/ PollSkipNext \/ PanelNext
                   \/ NodeNext \/ InlineNext \/ FunctionNext]_vars
\* two browsers, each with one protected update
SpecDuo == InitDuo /\ [][SyncNext \/ EchoNext \/ PanelNext \/ NodeNext]_vars
\* one browser whose patch saves meet transport failures
SpecFail ==
    InitFew /\ [][SyncNext \/ EchoNext \/ PanelNext \/ NodeNext
                  \/ PatchFailNext \/ FunctionNext]_vars
\* one browser deletes a node; the delete-node function deletes as well
SpecDelete ==
    InitFew /\ [][SyncNext \/ EchoNext \/ PanelNext \/ DeleteNext
                  \/ CollectionNext \/ FunctionNext]_vars
\* one browser draws an arrow while the delete-node function is called
SpecArrows ==
    InitArrows /\ [][SyncNext \/ EchoNext \/ ArrowNext \/ CollectionNext
                     \/ FunctionNext]_vars
\* one browser edits a node in its panel and drags node cards
SpecDrag ==
    InitSolo /\ [][SyncNext \/ EchoNext \/ PanelNext \/ NodeNext \/ DragNext]_vars
\* one browser draws arrows, deletes nodes and creates tags while the store
\* fails
SpecSaveFail ==
    InitFew /\ [][SyncNext \/ EchoNext \/ PanelNext \/ ArrowNext \/ DeleteNext
                  \/ TagNext \/ CollectionNext \/ SaveFailNext]_vars
\* one browser edits a node and is signed out; the delete-node function is
\* called
SpecSession ==
    InitFew /\ [][SyncNext \/ EchoNext \/ PanelNext \/ NodeNext \/ FunctionNext
                  \/ SessionNext]_vars
\* one browser adds nodes and edits a node in its panel
SpecAdd ==
    InitFew /\ [][SyncNext \/ EchoNext \/ PanelNext \/ NodeNext \/ AddNext]_vars
\* one browser uses every save path: node, connections, deletion, tag
SpecSaves ==
    InitFew /\ [][SyncNext \/ EchoNext \/ PanelNext \/ NodeNext \/ ArrowNext
                  \/ DeleteNext \/ TagNext \/ CollectionNext]_vars
\* one browser edits a node after a startup fetch that may have failed
SpecStart ==
    InitDuo /\ [][SyncNext \/ EchoNext \/ PanelNext \/ NodeNext \/ StartFailNext]_vars
\* one browser creates tags, also one that exists already
SpecTags ==
    InitSolo /\ [][SyncNext \/ EchoNext \/ PanelNext \/ TagNext \/ CollectionNext]_vars
\* two browsers: each edits a node or deletes one
SpecRecreate ==
    InitDuo /\ [][SyncNext \/ EchoNext \/ PanelNext \/ NodeNext \/ DeleteNext
                  \/ CollectionNext]_vars
\* one browser creates a tag and polls until nothing is under way
SpecConverge ==
    InitFew /\ [][SyncNext \/ EchoNext \/ PollNext \/ PollSkipNext \/ PanelNext
                  \/ TagNext \/ ConnectionsTimerNext \/ CollectionNext]_vars
\* one panel's mention hook for one field of one node
InitMentions == Init /\ remote.state = "full" /\ Solo(0)
SpecMentions == InitMentions /\ [][MentionNext]_vars
\* the auth hook of one browser: the page has loaded without a session
InitAuth == Init /\ remote.state = "full" /\ Solo(0)
SpecAuth == InitAuth /\ [][AuthNext]_vars
\* requests of every kind reach the delete-node function
SpecFunction == InitFunction /\ [][FunctionRequestNext]_vars
\* one loaded browser exports its document and imports files
SpecFile == InitFile /\ [][FileNext]_vars
\* the body each of the four saves sends for a fetched row
SpecPayload == InitPayload /\ [][PayloadNext]_vars
\* one browser starts on a store that was never seeded
SpecSeed == InitSeed /\ [][SyncNext \/ PollNext \/ SeedNext]_vars

\* ------------------------------------------------------------------ claims
NodeWrites == {i \in DOMAIN wlog : wlog[i].kind = "node"}
RemoteNode(id) == FindNode(parseDates(remote).components, id)
LocalNode(c, id) == FindNode(data[c].components, id)

\* the step applies row at client c, through the realtime handler or fetchData
ApplyStep(c, row) ==
    \/ channel[c] # <<>> /\ row = Head(channel[c]) /\ RealtimeApply(c)
    \/ \E op \in Requests(c) : row = op.row /\ FetchDataApply(c, op)
\* the rows that can reach client c in the next step
Arriving(c) ==
    (IF channel[c] # <<>> THEN {Head(channel[c])} ELSE {})
        \cup {op.row : op \in OpsOf(c, "load", "fetch") \cup OpsOf(c, "poll", "fetch")}

\* C1: when two clients have each patch-saved a different node, the remote
\* document holds both saved versions, whatever the order of their fetch and
\* write steps
C1_NeitherSaveLost ==
    \A i, j \in NodeWrites :
        (wlog[i].by # wlog[j].by /\ wlog[i].nodeId # wlog[j].nodeId)
            => /\ RemoteNode(wlog[i].nodeId) = wlog[i].node
               /\ RemoteNode(wlog[j].nodeId) = wlog[j].node

\* both clients fetched before either wrote, and both writes have landed
C1_BothFetchedFirst ==
    \E i, j \in NodeWrites :
        /\ i < j
        /\ wlog[i].by # wlog[j].by
        /\ wlog[i].nodeId # wlog[j].nodeId
        /\ wlog[j].row.data = PatchMerge(parseDates(wlog[i].before),
                                         wlog[j].nodeId, wlog[j].node)

\* C2: when a row is applied (realtime or poll) while node X is dirty, and the
\* row holds X with another value than the local copy, the local copy of X
\* is unchanged by the merge and every node that is not dirty equals its
\* incoming version
C2_DirtyNodeKept ==
    [][\A c \in Clients : \A row \in Arriving(c) :
         ApplyStep(c, row) =>
           \A x \in dirtyNodeIds[c] :
             (/\ x \in Ids(data[c].components)
              /\ x \in Ids(parseDates(row).components)
              /\ FindNode(parseDates(row).components, x) # LocalNode(c, x))
               => /\ LocalNode(c, x)' = LocalNode(c, x)
                  /\ \A y \in Ids(parseDates(row).components) \ dirtyNodeIds[c] :
                       LocalNode(c, y)' = FindNode(parseDates(row).components, y)]_vars

\* the last row a client applied held another value for a node that was dirty
C2_AppliedOverDirty ==
    \E c \in Clients : lastApplied[c].kept # {}

\* C3: a row this client wrote itself (a node save, a connections save, a
\* deletion, a tag creation), delivered back by the realtime feed or by a
\* poll, changes neither the local document nor the connections nor the status
C3_OwnEchoDiscarded ==
    [][\A c \in Clients :
         /\ (/\ channel[c] # <<>>
             /\ Head(channel[c]).by = c
             /\ channel'[c] = Tail(channel[c]))
              => UNCHANGED <<data[c], connections[c], saveStatus[c]>>
         /\ \A op \in OpsOf(c, "poll", "fetch") :
              (op.row.by = c /\ requests'[c] = Take(requests[c], op))
                => UNCHANGED <<data[c], connections[c], saveStatus[c]>>]_vars

\* C4: the write that deletes node X (handleDeleteNode's, or the delete-node
\* function's) leaves no connection with from or to equal to X
C4_DeletionPrunesConnections ==
    \A i \in DOMAIN wlog :
        wlog[i].kind \in {"delete", "fn"} =>
            \A k \in Range(wlog[i].row.connections) :
                k.from # wlog[i].nodeId /\ k.to # wlog[i].nodeId

\* C5: the step in which a patch save gives up after failures only: it was
\* the third attempt, the two waits were 1000 ms and 2000 ms, and after it
\* the status is offline, the save-pending flag is cleared and the local copy
\* of the node is the edited one
C5_RetryThenOffline ==
    [][\A c \in Clients : \A op \in Requests(c) :
         (/\ op.kind = "node"
          /\ op.pc = "fetch" \/ (op.pc = "resp" /\ op.err)
          /\ requests'[c] = Take(requests[c], op))
           => /\ op.attempt = MaxAttempts - 1
              /\ op.waits = <<BackoffBaseMs, 2 * BackoffBaseMs>>
              /\ saveStatus'[c] = "offline"
              /\ ~savePending'[c]
              /\ LocalNode(c, op.nodeId)' = op.node]_vars

\* C6: once the initial fetch of a client that found no document is over,
\* that client has made exactly one seeding write, and never makes more
C6_SeededExactlyOnce ==
    \A c \in Clients :
        LET seeds == {i \in DOMAIN wlog : wlog[i].kind = "seed" /\ wlog[i].by = c}
        IN /\ Cardinality(seeds) <= 1
           /\ (isAuthenticated[c] /\ ~isLoading[c]) => Cardinality(seeds) = 1

\* a save of the node is waiting in its debounce window or is in flight
SaveOutstanding(c, id) ==
    \/ nodeDebounceTimers[c][id] # NoTimer
    \/ \E op \in Requests(c) : op.kind = "node" /\ op.nodeId = id

\* C7: a step that starts the debounce of a node's save leaves the node
\* dirty, and only cancelEdit takes a node out of the dirty set while a save
\* of it is outstanding
C7_DirtyUntilSaved ==
    [][\A c \in Clients : \A id \in NodeIds :
         /\ (/\ nodeDebounceTimers'[c][id] # nodeDebounceTimers[c][id]
             /\ nodeDebounceTimers'[c][id] # NoTimer)
              => id \in dirtyNodeIds'[c]
         /\ (/\ id \in dirtyNodeIds[c]
             /\ id \notin dirtyNodeIds'[c]
             /\ SaveOutstanding(c, id)')
              => CancelEdit(c)]_vars

\* C8: when a row that does not hold node X is applied (realtime or poll), a
\* dirty X keeps its local copy and an X that is not dirty is dropped
C8_AbsentNode ==
    [][\A c \in Clients : \A row \in Arriving(c) :
         ApplyStep(c, row) =>
           \A x \in Ids(data[c].components) \ Ids(parseDates(row).components) :
             IF x \in dirtyNodeIds[c]
             THEN x \in Ids(data'[c].components) /\ LocalNode(c, x)' = LocalNode(c, x)
             ELSE x \notin Ids(data'[c].components)]_vars

\* a connections save is waiting in its debounce window or is in flight
ConnectionsSaveOutstanding(c) ==
    \/ connectionsSaveTimeout[c]
    \/ \E op \in Requests(c) : op.kind = "conn"

\* C9: a row applied (realtime or poll) while a connections save of this
\* client is outstanding leaves the local connections alone; applied at any
\* other time, its connections replace the local ones
C9_ConnectionsGuarded ==
    [][\A c \in Clients : \A row \in Arriving(c) :
         ApplyStep(c, row) =>
           IF ConnectionsSaveOutstanding(c)
           THEN connections'[c] = connections[c]
           ELSE connections'[c] = row.connections]_vars

\* C10: a poll applies a row only when its updated_at is later than that of
\* the last row this client applied, by either path
C10_PollOnlyNewer ==
    [][\A c \in Clients : \A op \in OpsOf(c, "poll", "fetch") :
         FetchDataApply(c, op) => op.row.updated_at > lastApplied[c].at]_vars

\* a save of this client (node, connections, deletion or tag) has started and
\* has not ended
WriteInFlight(c) ==
    \E o \in Requests(c) : o.kind \in {"node"} \cup CollectionKinds

\* C11: no polled row is applied at a client while one of its own saves (a
\* node save, a connections save, a deletion or a tag creation) is in flight
C11_NoPollApplyDuringWrite ==
    [][\A c \in Clients : \A op \in OpsOf(c, "poll", "fetch") :
         FetchDataApply(c, op) => ~WriteInFlight(c)]_vars

\* the debounce timers of client c that will save node id
PendingSaves(c, id) ==
    {k \in TimerKeys : /\ nodeDebounceTimers[c][k] # NoTimer
                       /\ nodeDebounceTimers[c][k].node.id = id}
\* the step is an edit of node id (a field edit or a drag move): it sets a
\* debounce timer that will save that node
EditOf(c, id) ==
    \E k \in TimerKeys :
        /\ nodeDebounceTimers'[c][k] # nodeDebounceTimers[c][k]
        /\ nodeDebounceTimers'[c][k] # NoTimer
        /\ nodeDebounceTimers'[c][k].node.id = id

\* C12: an edit of a node (field edit or drag move) made while a save of that
\* node waits in its debounce window leaves exactly one pending save of the
\* node, and that save carries the node as it is after the edit
C12_NewerEditReplacesPending ==
    [][\A c \in Clients : \A id \in NodeIds :
         (EditOf(c, id) /\ PendingSaves(c, id) # {})
           => /\ Cardinality(PendingSaves(c, id)') = 1
              /\ \A k \in PendingSaves(c, id)' :
                   nodeDebounceTimers'[c][k].node = LocalNode(c, id)']_vars

\* the step ends save op of client c after a failure of the remote store
EndsInFailure(c, op) ==
    /\ op.kind \in {"node"} \cup CollectionKinds
    /\ op.pc = "fetch" \/ (op.pc = "resp" /\ op.err)
    /\ requests'[c] = Take(requests[c], op)

\* C13: a save (node, connections, deletion, tag) that ends after a fetch
\* error or a write error leaves the status offline
C13_FailureEndsOffline ==
    [][\A c \in Clients : \A op \in Requests(c) :
         EndsInFailure(c, op) => saveStatus'[c] = "offline"]_vars

\* C14: the step in which a patch save ends in success leaves the local
\* document equal to the merged document that save wrote
C14_LocalEqualsPersisted ==
    [][\A c \in Clients : \A op \in OpsOf(c, "node", "resp") :
         (~op.err /\ PatchSaveResp(c, op)) => data'[c] = op.row.data]_vars

\* the step sends a select or an upsert of client c to the remote store: an
\* operation of c newly stands at its fetch or at its write
IssuesRequest(c) ==
    \E o \in BagToSet(requests'[c]) :
        /\ o.pc \in {"fetch", "write"}
        /\ CopiesIn(o, requests'[c]) > CopiesIn(o, requests[c])

\* C15: a client without an authenticated identity sends no select and no
\* upsert to the remote store and applies no remote row
C15_NoSyncWithoutIdentity ==
    [][\A c \in Clients :
         ~isAuthenticated[c] =>
            /\ ~IssuesRequest(c)
            /\ \A row \in Arriving(c) : ~ApplyStep(c, row)]_vars

\* the step is an import at client c of file f
ImportStep(c, f) ==
    /\ f \in FilesToPick(c)
    /\ HandleImport(c, f)

\* C16: importing the file that was exported from the current document and
\* connections leaves both as they were, up to the serialization of the
\* timestamp fields
C16_ExportImportIdentity ==
    [][\A c \in Clients :
         (/\ file[c] # NoFile
          /\ file[c].data = DocJson(data[c])
          /\ file[c].connections = connections[c]
          /\ ImportStep(c, file[c]))
           => /\ DocJson(data'[c]) = DocJson(data[c])
              /\ connections'[c] = connections[c]]_vars

\* an exported file was imported into a document that holds a node with a
\* comment and a milestone
C16_Reimported ==
    \E c \in Clients :
        /\ alerts[c] = "Data imported successfully!"
        /\ file[c] # NoFile
        /\ file[c].data = DocJson(data[c])
        /\ \E i \in DOMAIN data[c].components :
             /\ Has(data[c].components[i], "comments")
             /\ data[c].components[i].comments # <<>>
        /\ Has(data[c], "milestones")
        /\ data[c].milestones # <<>>

\* C17: importing a malformed file (no JSON, no data key, no connections key,
\* or data without a components list) shows a rejection message and changes
\* neither the document nor the connections
C17_MalformedImportRejected ==
    [][\A c \in Clients : \A f \in MalformedFiles :
         ImportStep(c, f)
           => /\ alerts'[c] \in {"Failed to import file", "Invalid file format"}
              /\ data'[c] = data[c]
              /\ connections'[c] = connections[c]]_vars

\* the ids of a component list are pairwise distinct
UniqueIds(comps) == Cardinality(Ids(comps)) = Len(comps)

\* C18: node ids are unique within the components of every client's local
\* document and of the remote document, whatever nodes have been added
C18_NodeIdsUnique ==
    /\ \A c \in Clients : UniqueIds(data[c].components)
    /\ UniqueIds(parseDates(remote).components)

\* what the function's contract says of one answer: a write only for a valid
\* token of an active admin, otherwise one of the given statuses, each for
\* its reason
AnswerAsClaimed(r, statuses) ==
    /\ r.wrote => /\ r.req.authorization = "valid"
                  /\ r.req.role = "admin" /\ r.req.active
                  /\ r.status = 200
    /\ ~r.wrote => r.status \in statuses
    /\ r.status = 401 => r.req.authorization # "valid"
    /\ r.status = 400 => r.req.body \in {None, NoJson}
    /\ r.status = 403 => ~(r.req.role = "admin" /\ r.req.active)
    /\ r.status = 404 => ~r.found
FnWrites == {i \in DOMAIN wlog : wlog[i].kind = "fn"}
Wrote == {i \in DOMAIN fnLog : fnLog[i].wrote}

\* C19: the delete-node function writes only for a valid bearer token of an
\* active admin; every other request is answered 401, 400, 403, 404 or 500
\* and writes nothing
C19_WritesOnlyForAdmin ==
    /\ Cardinality(FnWrites) = Cardinality(Wrote)
    /\ \A i \in DOMAIN fnLog : AnswerAsClaimed(fnLog[i], {401, 400, 403, 404, 500})

\* C19 as amended: the same, with 405 for a request that is not a POST and an
\* empty 200 for an OPTIONS preflight
C19_WritesOnlyForAdminPost ==
    /\ Cardinality(FnWrites) = Cardinality(Wrote)
    /\ \A i \in DOMAIN fnLog :
         /\ AnswerAsClaimed(fnLog[i], {401, 400, 403, 404, 500, 405, 200})
         /\ fnLog[i].wrote => fnLog[i].req.method = "POST"
         /\ fnLog[i].status = 405 => fnLog[i].req.method \notin {"POST", "OPTIONS"}
         /\ (fnLog[i].status = 200 /\ ~fnLog[i].wrote) => fnLog[i].req.method = "OPTIONS"

\* the function has written the row for an admin's request
C19_AdminWrote ==
    \E i \in DOMAIN fnLog : fnLog[i].wrote /\ FnWrites # {}


\* a user is sent a second notification when an invocation of notify-mentions
\* names someone an earlier invocation named
Renotified(i) == \E j \in 1..(i - 1) : notifyLog[i].to \cap notifyLog[j].to # {}

\* C20: for the node and field, every invocation of notify-mentions names only
\* users of the call's mention set that were not persisted when saveMentions
\* was called, and nobody that an earlier invocation named
C20_NeverNotifiedAgain ==
    \A i \in DOMAIN notifyLog :
        /\ notifyLog[i].to \cap notifyLog[i].persisted = {}
        /\ ~Renotified(i)

\* the row a lookup found bars the user
FoundInactive(row) == row.exists /\ ~row.active
\* googleUser becomes the user in this step
Admitted(user) == googleUser' = user /\ googleUser # user

\* C21: googleUser is never a user of a domain outside ALLOWED_DOMAINS, and it
\* becomes a user only at the end of a resolveUserAccess for that user whose
\* role lookup did not find a row with active = false; so fullyAuthed is never
\* true for such a user, in whatever order getSession and the auth events
\* are answered
C21_DeniedNeverAuthed ==
    /\ [](googleUser # NoUser => EmailDomain(googleUser) \in ALLOWED_DOMAINS)
    /\ [][\A u \in AuthUsers :
            Admitted(u) =>
                /\ EmailDomain(u) \in ALLOWED_DOMAINS
                /\ \E op \in BagToSet(authOps) :
                     op.user = u /\ op.pc = "upsert" /\ ~FoundInactive(op.found)]_vars
\* a user whose row is inactive was the only one to sign in, and has been
\* denied
C21_InactiveDenied ==
    /\ accessDenied /\ googleUser = NoUser
    /\ session = Ian /\ FoundInactive(rolesTable[Ian])
    /\ authCalls.events = 1 /\ authCalls.roles = 0
    /\ ~getSessionPending /\ authEvents = <<>> /\ authOps = EmptyBag

\* the inactivity timer is due
TimerDue == \E t \in inactivityTimers : t.age >= INACTIVITY_TIMEOUT_MS
\* the hook with a timer callback that runs once it is due
SpecAuthLive == SpecAuth /\ WF_vars(\E t \in inactivityTimers : InactivityTimerFires(t))

\* C25: while the user is fully authenticated exactly one inactivity timer is
\* pending and it has run since the last activity event (or since sign-in), so
\* every activity event restarts the countdown; never more than one timer is
\* pending, and none while the user is not authenticated; a user is never
\* authenticated for more than INACTIVITY_TIMEOUT_MS without activity, because
\* the timer that is due clears the session: googleUser becomes null and a
\* sign-out is issued
C25_InactivityClearsSession ==
    /\ [](Cardinality(inactivityTimers) <= 1)
    /\ [](~FullyAuthed(googleUser, accessDenied) => inactivityTimers = {})
    /\ [](FullyAuthed(googleUser, accessDenied) =>
            /\ inactivityTimers = {[held |-> TRUE, age |-> sinceActivity]}
            /\ sinceActivity <= INACTIVITY_TIMEOUT_MS)
    /\ [][\A t \in inactivityTimers :
            InactivityTimerFires(t) =>
                /\ FullyAuthed(googleUser, accessDenied)
                /\ googleUser' = NoUser
                /\ signOuts' = signOuts + 1
                /\ inactivityTimers' = {}]_vars
    /\ ((FullyAuthed(googleUser, accessDenied) /\ TimerDue)
          ~> (~FullyAuthed(googleUser, accessDenied) \/ sinceActivity = 0))
\* the timer of an authenticated user has run out and has cleared the session
C25_TimedOut ==
    /\ googleUser = NoUser /\ ~accessDenied /\ userRole = None
    /\ sinceActivity >= INACTIVITY_TIMEOUT_MS
    /\ signOuts > 0 /\ session # NoUser
    /\ inactivityTimers = {}
    /\ authCalls.timeouts = 1 /\ authCalls.events = 1

\* the rows a browser has stamped in a save path: those whose upsert is issued
\* and those whose notification waits in its own feed
StampedRows(c) ==
    {op.row : op \in {o \in Requests(c) : o.pc = "write" /\ o.kind # "load"
                                          /\ o.kind # "poll"}}
      \cup {channel[c][i] : i \in {k \in DOMAIN channel[c] : channel[c][k].by = c}}

\* C22: from the moment the write of a save path (node, connections, deletion,
\* tag) is issued until its notification has been handled, the Save Echo
\* Marker of the writer is the updatedAt of that write or a later one, never
\* an older value
C22_MarkerBeforeWrite ==
    \A c \in Clients : \A row \in StampedRows(c) :
        /\ lastSaveTimestamp[c] # NoTime
        /\ lastSaveTimestamp[c] >= row.updated_at
\* a browser has written a node save and a collection-level save, and the
\* notification of its last write waits in its own feed
C22_EchoArrives ==
    \E c \in Clients :
        /\ channel[c] # <<>> /\ Head(channel[c]).by = c
        /\ lastSaveTimestamp[c] = Head(channel[c]).updated_at
        /\ \E i, j \in DOMAIN wlog :
             /\ wlog[i].by = c /\ wlog[i].kind = "node"
             /\ wlog[j].by = c /\ wlog[j].kind \in CollectionKinds

\* the in-memory document or the connections of the browser change in this step
DocChanges(c) == data'[c] # data[c] \/ connections'[c] # connections[c]

\* C23: after every change of the in-memory document or of the connections,
\* the durable copy in local storage is the in-memory state (as JSON text)
C23_DurableCopyCurrent ==
    [][\A c \in Clients :
         DocChanges(c) => localStorage'[c] = StoredItems(data'[c], connections'[c])]_vars

\* the startup fetch of the browser has ended, one way or the other
StartupEnded(c) ==
    /\ isAuthenticated[c]
    /\ \A op \in Requests(c) : op.kind # "load"

\* C28: once the startup fetch has ended, also with a remote-store error, the
\* browser is no longer in initial-load mode, so that the patch save of a later
\* node edit is not turned away at the gate of patchSaveNode
C28_LeavesInitialLoad ==
    \A c \in Clients : StartupEnded(c) => ~isInitialLoad[c]


\* a list of tags holds no tag id twice
UniqueTags(tags) == Cardinality(Range(tags)) = Len(tags)

\* C24: tag ids are unique in the tags of the remote document and in the tags
\* of every browser's document, whatever tags were created
C24_TagIdsUnique ==
    /\ remote.state = "full" => UniqueTags(parseDates(remote).tags)
    /\ \A c \in Clients : UniqueTags(data[c].tags)


\* the user has edited the node of save op since that save started: a debounce
\* timer set after the save's own timer fired holds the node as the edit left
\* it, which is the local copy and differs from the snapshot the save carries
EditedInFlight(c, op) ==
    /\ op.nodeId \in Ids(data[c].components)
    /\ nodeDebounceTimers[c][op.nodeId] # NoTimer
    /\ nodeDebounceTimers[c][op.nodeId].node = LocalNode(c, op.nodeId)
    /\ LocalNode(c, op.nodeId) # op.node

\* C27: the step in which a patch save of node X ends in success leaves the
\* local copy of X as the edit made during the save left it
C27_SaveKeepsLaterEdit ==
    [][\A c \in Clients : \A op \in OpsOf(c, "node", "resp") :
         (~op.err /\ PatchSaveResp(c, op) /\ EditedInFlight(c, op))
           => LocalNode(c, op.nodeId)' = LocalNode(c, op.nodeId)]_vars


\* the document save op of browser c has fetched lacks the node of the save
AbsentFromFetched(op) == op.nodeId \notin Ids(parseDates(remote).components)

\* C29: a patch save that fetches a document without its node sends that
\* document with the node appended, and the row a patch save writes holds the
\* node in the saving browser's version
C29_AbsentNodeAppended ==
    [][/\ \A c \in Clients : \A op \in OpsOf(c, "node", "fetch") :
            (PatchSaveFetch(c, op) /\ AbsentFromFetched(op))
              => \E w \in BagToSet(requests'[c]) :
                   /\ w.kind = "node" /\ w.pc = "write"
                   /\ parseDates(w.row).components =
                        Append(parseDates(remote).components, op.node)
       /\ \A c \in Clients : \A w \in OpsOf(c, "node", "write") :
            Upsert(c, w)
              => FindNode(parseDates(remote').components, w.nodeId) = w.node]_vars

\* a patch save has re-created, at the end of the remote document, the node
\* that stood first in it until another browser's deletion was written
C29_Recreated ==
    \E j \in DOMAIN wlog : \E i \in 1..(j - 1) :
        LET X == wlog[j].nodeId
            before == parseDates(wlog[j].before).components
        IN /\ wlog[i].kind = "delete" /\ wlog[j].kind = "node"
           /\ wlog[i].nodeId = X /\ wlog[i].by # wlog[j].by
           /\ parseDates(wlog[i].before).components[1].id = X
           /\ before # <<>> /\ X \notin Ids(before)
           /\ parseDates(remote).components = Append(before, wlog[j].node)


\* every fetched node but the one of id stands in the written list, at its
\* place and as it was fetched
OthersKept(written, fetched, id) ==
    \A i \in DOMAIN fetched :
        fetched[i].id # id => i \in DOMAIN written /\ written[i] = fetched[i]

\* the body save w sends holds, for everything the save does not own, what the
\* fetched row holds
FrameKept(w, fetched) ==
    CASE w.kind = "node" ->
           /\ w.row.connections = fetched.connections
           /\ OthersKept(w.row.data.components, fetched.data.components, w.nodeId)
           /\ w.row.data.tags = fetched.data.tags
      [] w.kind = "conn" -> w.row.data = fetched.data
      [] w.kind = "delete" ->
           /\ w.row.connections = fetched.connections
           /\ w.row.data.components = RemoveNode(fetched.data.components, w.nodeId)
           /\ w.row.data.tags = fetched.data.tags
      [] w.kind = "tag" ->
           /\ w.row.connections = fetched.connections
           /\ w.row.data.components = fetched.data.components

\* C30: the body a save sends holds the parts of the row the save does not own
\* (the other nodes, the tags, the connections; for saveConnections the whole
\* node data) exactly as the row it fetched holds them
C30_UnownedPartsFromFetched ==
    \A c \in Clients : \A w \in Requests(c) :
        (w.pc = "write" /\ w.kind \in {"node"} \cup CollectionKinds)
          => FrameKept(w, remote)


\* nothing but poll op of browser c is under way: no request, no realtime
\* event, no call of the function, no timer, no edit, no dirty node; and the
\* poll has read the row as it is now
QuietButPoll(c, op) ==
    /\ isAuthenticated[c] /\ ~isInitialLoad[c]
    /\ requests[c] = SetToBag({op})
    /\ \A k \in Clients \ {c} : requests[k] = EmptyBag
    /\ \A k \in Clients : /\ channel[k] = <<>>
                          /\ editEndTimers[k] = EmptyBag
                          /\ ~connectionsSaveTimeout[k]
                          /\ \A key \in TimerKeys : nodeDebounceTimers[k][key] = NoTimer
    /\ fnRequests = EmptyBag
    /\ ~editingField[c] /\ dirtyNodeIds[c] = {} /\ ~savePending[c]
    /\ op.row = remote /\ remote.state = "full"
\* the poll op of browser c ends in this step, applied or skipped
PollEnds(c, op) == requests'[c] = Take(requests[c], op)
\* the local document and connections of browser c are the remote ones
Converged(c) ==
    /\ data[c] = parseDates(remote)
    /\ connections[c] = remote.connections

\* C26: when a poll ends that read the final row, after every save, event,
\* timer and edit has ended, the browser's document and connections are the
\* remote ones
C26_QuiescentPollConverges ==
    [][\A c \in Clients : \A op \in OpsOf(c, "poll", "fetch") :
         (QuietButPoll(c, op) /\ PollEnds(c, op)) => Converged(c)']_vars
====
